---- MODULE Spec2Model ----
(***************************************************************************)
(* Knowledge synchronisation of ultra-planning-v2.                         *)
(*                                                                         *)
(* scripts/auto-embedder.py keeps, for every knowledge document, an index  *)
(* (a .npy file of vectors and a .json file of section metadata) and a     *)
(* hash cache (.hash_cache.json) that records the digest each document had *)
(* when it was last embedded.  The module models one auto-embedder process *)
(* (auto_embed_all and the functions it calls), the files it reads and     *)
(* writes, the writers of the documents, and the reader of the index in    *)
(* scripts/knowledge-indexer.py.                                           *)
(*                                                                         *)
(* A document's text is abstracted to a content number: Missing is "no     *)
(* such file", content c >= 1 is a text with c - 1 section headers.        *)
(* Every open(..., 'w') of the code is two steps, the truncation and the   *)
(* write of the new content; the process can be killed between any two     *)
(* steps.  hash_file and parse_sections of one check_and_embed_file call   *)
(* read the document in one step.                                          *)
(*                                                                         *)
(* Spec       the auto-embedder process, document writes, kills            *)
(* SpecReader Spec plus find_cross_references reading the index files      *)
(* SpecSync   check_and_embed_file called directly, any document, any      *)
(*            number of times, on one hash_cache dict                      *)
(*                                                                         *)
(* scripts/file-watcher.py is the daemon: on_modified with its three       *)
(* timestamps and its handlers, under a clock that ticks every half        *)
(* second.  scripts/cache_manager.py holds the memoized file loader.       *)
(* scripts/error-monitor.py captures errors: text is a sequence of tokens, *)
(* generate_error_fingerprint rewrites the tokens as its patterns do.      *)
(*                                                                         *)
(* SpecWatcher      events of every kind delivered to the daemon           *)
(* SpecDaemon       the daemon next to calls of check_and_embed_file       *)
(* SpecCache        the daemon, document writes, load_file_cached          *)
(* SpecMonitor      process_error_from_buffer on failures.md, task_plan.md *)
(* SpecFingerprint  generate_error_fingerprint on any arguments            *)
(*                                                                         *)
(* scripts/vector-search.py and scripts/reranker.py are the two-stage      *)
(* search, find_cross_references of scripts/knowledge-indexer.py relates   *)
(* the entries of different documents: vectors are pairs of integers with  *)
(* integer norms, a cosine similarity is a number of 1/Unit.  The section  *)
(* parsers are parse_sections of scripts/auto-embedder.py and              *)
(* parse_sections_cached of scripts/cache_manager.py: a text is a sequence *)
(* of lines, each a header line, a line with the marker inside, or other   *)
(* text.                                                                   *)
(*                                                                         *)
(* SpecSearch       search_semantic on any vectors directory               *)
(* SpecRefs         find_cross_references on any index files               *)
(* SpecParse        a document created, rewritten, parsed by both parsers  *)
(*                                                                         *)
(* The programs that share the project's directories: the two writers of   *)
(* knowledge/vectors and their readers, two error monitors on one          *)
(* failures.md, the daemon's progress tracking of task_plan.md, claim_file *)
(* of scripts/session-registry.py on the file_claims table, the commands   *)
(* of scripts/session-orchestrator.py, each a process of its own, and      *)
(* create_extraction_prompt of scripts/smart-prompt-helper.py.             *)
(*                                                                         *)
(* SpecVectors      auto-embedder and vector-search --generate, any order  *)
(* SpecMonitors     two monitors, the read and the append interleaved      *)
(* SpecWatcherLive  SpecWatcher with the clock ticking on                  *)
(* SpecPlan         handle_task_plan_update on any Phases section          *)
(* SpecRegistry     claim_file of two processes, SELECT and INSERT apart   *)
(* SpecSession      start, idle and end commands, an interrupted start     *)
(* SpecPrompt       the prompt created with any counts, and deleted        *)
(***************************************************************************)
EXTENDS Integers, Sequences, FiniteSets, TLC

\* ------------------------------------------------------------ bounds
\* Number of clock ticks after the daemon started.
MaxTime == 6
\* Number of file-system events delivered to the daemon in one behaviour.
MaxEvents == 2
\* Number of errors the monitor captures in one behaviour.
MaxCaptures == 2
\* Largest number of lines of a stack trace passed to
\* generate_error_fingerprint.
MaxLines == 4
\* Largest document content; content c has c - 1 sections.
MaxContent == 3
\* Number of document writes in one behaviour.
MaxWrites == 1
\* Number of times the process is killed in one behaviour.
MaxKills == 1

\* ------------------------------------------------------------ documents
knowledge_files == <<"patterns", "failures", "decisions", "gotchas">>

NumFiles == Len(knowledge_files)

Docs == {knowledge_files[k] : k \in 1..NumFiles}

\* file_path.exists() is false
Missing == 0

Contents == 1..MaxContent

\* hash_file of a missing file: the empty string
EmptyDigest == 0

\* hash_file: SHA256 of the bytes; distinct contents have distinct digests,
\* and no content has the empty digest.
hash_file(c) == IF c = Missing THEN EmptyDigest ELSE 100 + c

\* parse_sections: re.split on the header pattern, splits[1:] enumerated
\* from 1.  Content c holds c - 1 headers; a missing file parses to [].
parse_sections(c) ==
    IF c = Missing THEN << >>
    ELSE [k \in 1..(c - 1) |-> [id |-> k, src |-> c]]

\* the content a list of sections was parsed from
SrcOf(secs) == IF Len(secs) = 0 THEN Missing ELSE secs[1].src

\* (mutant) the batch leaves out the first section
embed_sections_SkipsFirst(secs) == [k \in 1..(Len(secs) - 1) |-> secs[k + 1].src]

\* embed_sections: one vector per section, in one batch
embed_sections(secs) == [k \in 1..Len(secs) |-> secs[k].src]

\* ------------------------------------------------------------ files
NoFile == [st |-> "none", src |-> Missing, n |-> 0]

\* the file after open(path, 'w'): truncated, the content not yet written
Truncated == [st |-> "partial", src |-> Missing, n |-> 0]

\* a completely written index file holding n entries built from content src
Written(src, n) == [st |-> "ok", src |-> src, n |-> n]

\* hash_cache.get(file_key, ""): an absent key reads as the empty digest
EmptyCache == [d \in Docs |-> EmptyDigest]

NoCacheFile == [st |-> "none", map |-> EmptyCache]

TruncatedCacheFile == [st |-> "partial", map |-> EmptyCache]

WrittenCacheFile(cache) == [st |-> "ok", map |-> cache]

\* load_hash_cache: {} when the file is absent or json.load raises
load_hash_cache(f) == IF f.st = "ok" THEN f.map ELSE EmptyCache

\* (mutant) the digest is not recorded
Committed_Skips(cache, d, h) == cache

\* hash_cache[file_key] = current_hash
Committed(cache, d, h) == [cache EXCEPT ![d] = h]

VARIABLES
    doc,         \* doc[d]: the content of knowledge/<d>.md
    cacheFile,   \* vectors/.hash_cache.json
    npy,         \* npy[d]: vectors/<d>.npy
    json,        \* json[d]: vectors/<d>.json
    pc,          \* position of the auto-embedder process
    force,       \* auto_embed_all's force argument
    i,           \* index of the loop over knowledge_files
    hash_cache,  \* the dict loaded by load_hash_cache
    current_hash,\* check_and_embed_file's current_hash
    sections,    \* check_and_embed_file's sections
    ret,         \* what the last check_and_embed_file call returned
    exit,        \* how the last run of the process ended
    indexed,     \* history: indexed[d] = contents whose index was completely written
    lastSaved,   \* history: the mapping of the last completed save_hash_cache
    rets,        \* history: rets[d] = the last two results of check_and_embed_file
                 \* on d since d was written
    writes,      \* number of document writes so far
    kills,       \* number of times the process was killed so far
    rpc, rd, rnpy, robs   \* the cross-reference reader

\* scripts/file-watcher.py (SmartFileWatcher) and the memoized file loader
\* of scripts/cache_manager.py
VARIABLES
    now,                    \* time.time(), in ticks
    last_task_plan_update,  \* SmartFileWatcher.last_task_plan_update
    last_context_update,    \* SmartFileWatcher.last_context_update
    last_knowledge_update,  \* SmartFileWatcher.last_knowledge_update
    wst,                    \* the daemon: "watching", "interrupted", "crashed"
    ledger,                 \* ledgers/CONTINUITY_active.md
    file_cache,             \* the lru_cache of load_file_cached
    events,                 \* number of events delivered so far
    wlog,                   \* history: the last event and what on_modified did
    lastAccepted,           \* history: lastAccepted[p] = time of the last
                            \* accepted event on path p, 0 if none
    failed                  \* history: some handler has failed

\* scripts/error-monitor.py
VARIABLES
    failures_md,   \* knowledge/failures.md: the records, first to last
    error_log,     \* the rows of the error log table of active/task_plan.md
    captures,      \* history: the last two captures
    ncaptures,     \* number of captures so far
    fin,           \* the arguments of a direct call of generate_error_fingerprint
    fout           \* what the call returned

\* scripts/vector-search.py with scripts/reranker.py, find_cross_references
\* of scripts/knowledge-indexer.py, and the section parsers
VARIABLES
    sin,    \* the arguments and the environment of a call of search_semantic
    sout,   \* what the call did
    xin,    \* the vectors directory and the threshold of a call of
            \* find_cross_references
    xout,   \* what the call did
    pin,    \* the document the parsers are called on and the caches of
            \* cache_manager.py in the calling process
    pout    \* what the last call of a parser returned, and the calls so far

\* the programs that share the project's directories
VARIABLES
    vectors,      \* knowledge/vectors as its two writers leave it
    procs,        \* the error-monitor processes that run side by side
    registry,     \* sessions.db and the sessions that claim files
    orchestrator, \* the session-orchestrator invocations and the file
                  \* watchers they started
    prompt,       \* active/.extraction_needed.txt and what
                  \* smart-prompt-helper.py counts
    progress      \* a task plan and what handle_task_plan_update makes of it

vars == <<doc, cacheFile, npy, json, pc, force, i, hash_cache, current_hash,
          sections, ret, exit, indexed, lastSaved, rets, writes, kills,
          rpc, rd, rnpy, robs,
          now, last_task_plan_update, last_context_update,
          last_knowledge_update, wst, ledger, file_cache, events, wlog,
          lastAccepted, failed,
          failures_md, error_log, captures, ncaptures, fin, fout,
          sin, sout, xin, xout, pin, pout,
          vectors, procs, registry, orchestrator, prompt, progress>>

files == <<doc, cacheFile, npy, json>>
locals == <<force, i, hash_cache, current_hash, sections, ret>>
hist == <<indexed, lastSaved, rets, writes, kills>>
reader == <<rpc, rd, rnpy, robs>>
timestamps == <<last_task_plan_update, last_context_update,
                last_knowledge_update>>
watcher == <<now, timestamps, wst, ledger, events, wlog, lastAccepted, failed>>
\* the state of the programs other than the auto-embedder and the reader
monitor == <<failures_md, error_log, captures, ncaptures, fin, fout>>
\* the state of the search, of the cross-reference finder and of the parsers
retrieval == <<sin, sout, xin, xout, pin, pout>>
\* the state of the programs that share the project's directories
shared == <<vectors, procs, registry, orchestrator, prompt, progress>>
outside == <<watcher, file_cache, monitor, retrieval, shared>>
\* the state of the auto-embedder and of the cross-reference reader
embedder == <<cacheFile, npy, json, pc, locals, exit, hist, reader>>
\* the state of everything but the programs that share the directories
apart == <<doc, embedder, watcher, file_cache, monitor, retrieval>>

NoObs == [st |-> "none", npy |-> Missing, json |-> Missing]

\* The knowledge directory the behaviours start from: a document with one
\* section, one with two, one without section headers, one not yet created.
InitDoc ==
    [d \in Docs |->
        IF d = "patterns" THEN 2
        ELSE IF d = "failures" THEN 3
        ELSE IF d = "decisions" THEN 1
        ELSE Missing]

\* ------------------------------------------------------------ captured errors
\* Text is a sequence of tokens.  A token is a word or a volatile substring
\* of one of seven kinds, in one of two variants:
\*   date      2024-01-0v            time      1v:34:56
\*   path      /home/uv/app.py       winpath   C:\Users\uv\app.py
\*   lineno    :4v:                  linetail  :4v at the end of the text
\*   lineword  line 4v
Variants == {1, 2}

VolatileKinds ==
    {"date", "time", "path", "winpath", "lineno", "linetail", "lineword"}

Volatile == [k : VolatileKinds, v : Variants]

Word(v) == [k |-> "word", v |-> v]

\* The symptoms of the captured errors: a message, or a message followed
\* by a volatile substring.
Symptoms ==
    {<<Word(1)>>, <<Word(2)>>} \cup {<<Word(1), t>> : t \in Volatile}

\* The lines of a stack trace: a plain line, or a frame with a path and a
\* line number.
StackLines ==
    {<<Word(1)>>, <<[k |-> "path", v |-> 1], [k |-> "lineno", v |-> 1]>>}

\* the sequences of at most n elements of S
RECURSIVE SeqsUpTo(_, _)
SeqsUpTo(S, n) ==
    IF n = 0 THEN {<< >>}
    ELSE LET shorter == SeqsUpTo(S, n - 1)
         IN  shorter \cup {Append(q, x) : q \in shorter, x \in S}

StackTraces == SeqsUpTo(StackLines, MaxLines)

\* generate_error_fingerprint, the symptom: lower(), then the re.sub calls
\* of lines 124-137 in their order.  The pattern of Windows paths asks for an
\* upper-case drive letter and finds none in the lowered text; the pattern of
\* line numbers asks for a colon after the digits.
normalized(symptom) ==
    [j \in 1..Len(symptom) |->
        LET t == symptom[j] IN
        IF t.k = "date" THEN [k |-> "DATE", v |-> 0]
        ELSE IF t.k = "time" THEN [k |-> "TIME", v |-> 0]
        ELSE IF t.k = "path" THEN [k |-> "/PATH/", v |-> 0]
        ELSE IF t.k = "lineno" THEN [k |-> ":LINE:", v |-> 0]
        ELSE IF t.k = "lineword" THEN [k |-> "line NUM", v |-> 0]
        ELSE t]

\* generate_error_fingerprint, one line of the stack trace: the directories
\* of a path are removed, then every colon followed by digits.  A date stays,
\* a time keeps its hours, ":4v:" keeps a colon, ":4v" disappears.
normalized_line(line) ==
    LET kept == SelectSeq(line, LAMBDA t : t.k # "linetail") IN
    [j \in 1..Len(kept) |->
        LET t == kept[j] IN
        IF t.k = "path" THEN [k |-> "basename", v |-> 0]
        ELSE IF t.k = "lineno" THEN [k |-> ":", v |-> 0]
        ELSE IF t.k = "time" THEN [k |-> "hours", v |-> t.v]
        ELSE t]

RECURSIVE Joined(_)
Joined(lines) ==
    IF lines = << >> THEN << >>
    ELSE normalized_line(Head(lines)) \o Joined(Tail(lines))

\* (mutant) every line of the stack trace is folded into the signature
stack_sig_AllLines(stack_trace) == Joined(stack_trace)

\* generate_error_fingerprint, stack_sig: stack_trace.split('\n')[:3], each
\* line normalized, the results concatenated.
stack_sig(stack_trace) ==
    Joined(SubSeq(stack_trace, 1, IF Len(stack_trace) < 3 THEN Len(stack_trace)
                                                          ELSE 3))

\* generate_error_fingerprint: the MD5 digest (12 characters of it) of
\* normalized + stack_sig; distinct texts have distinct digests.
generate_error_fingerprint(symptom, stack_trace) ==
    normalized(symptom) \o stack_sig(stack_trace)

\* The line that made detect_error return true: "Error: " and the symptom.
ErrorLine(symptom) == <<[k |-> "Error:", v |-> 0]>> \o symptom

\* The buffers process_error_from_buffer is called with: the error line is
\* the last line; nothing or one line of output precedes it.
Buffers ==
    {pre \o <<ErrorLine(sym)>> : pre \in {<< >>, <<(<<Word(2)>>)>>},
                                 sym \in Symptoms}

\* extract_error_symptom: what follows "Error:" in the last line
extract_error_symptom(buffer) == Tail(buffer[Len(buffer)])

\* extract_stack_trace: lines[max(0, error_line_index - 2) :
\* error_line_index + 20], the error line being the last of the buffer
extract_stack_trace(buffer) ==
    SubSeq(buffer, IF Len(buffer) > 2 THEN Len(buffer) - 2 ELSE 1, Len(buffer))

\* f'[fp:{fingerprint}]' in content
fp_in_content_LastOnly(fingerprint, content) ==
    content # << >> /\ content[Len(content)].tag = fingerprint

fp_in_content(fingerprint, content) ==
    \E k \in 1..Len(content) : content[k].tag = fingerprint

\* (mutant) the record replaces the content of the file
written_Truncates(content, record) == <<record>>

\* open(failures_file, 'a'); f.write(error_text)
written(content, record) == Append(content, record)

\* the record add_to_failures_md appends for an error
ErrorRecord(symptom, fingerprint) ==
    [by |-> "engine", symptom |-> symptom, tag |-> fingerprint]

\* A record of failures.md written by a human, who has tagged it with the
\* fingerprint of the error it documents.
HumanRecord ==
    [by |-> "human", symptom |-> <<Word(2)>>,
     tag |-> generate_error_fingerprint(<<Word(2)>>, <<ErrorLine(<<Word(2)>>)>>)]

\* task_plan.md does not exist or has no "Live Error Log" table
NoTable == <<[error |-> << >>, attempt |-> 0]>>

\* add_to_error_log_table: a row with the symptom and the number of rows
\* that hold it already, plus one, is inserted at the top of the table.
add_to_error_log_table(symptom) ==
    IF error_log = NoTable THEN NoTable
    ELSE LET same == {k \in 1..Len(error_log) : error_log[k].error = symptom}
         IN  <<[error |-> symptom, attempt |-> Cardinality(same) + 1]>>
                 \o error_log

\* generate_error_fingerprint has not returned
NoCall == [a |-> <<[k |-> "none", v |-> 0]>>, b |-> <<[k |-> "none", v |-> 0]>>]

FingerprintInputs == [symptom : Symptoms, a : StackTraces, b : StackTraces]

NoInput == [symptom |-> <<Word(1)>>, a |-> << >>, b |-> << >>]

\* No failures.md, a task plan with an empty error log table, no call of
\* generate_error_fingerprint.
InitMonitor ==
    /\ failures_md = << >>
    /\ error_log = << >>
    /\ captures = << >>
    /\ ncaptures = 0
    /\ fin = NoInput
    /\ fout = NoCall

\* The error monitor starts: failures.md is missing or holds a record
\* written by a human; task_plan.md has an error log table or not.
InitCaptures ==
    /\ failures_md \in {<< >>, <<HumanRecord>>}
    /\ error_log \in {NoTable, << >>}
    /\ captures = << >>
    /\ ncaptures = 0
    /\ fin = NoInput
    /\ fout = NoCall

\* generate_error_fingerprint is about to be called on any arguments.
InitFingerprint ==
    /\ failures_md = << >>
    /\ error_log = << >>
    /\ captures = << >>
    /\ ncaptures = 0
    /\ fin \in FingerprintInputs
    /\ fout = NoCall

\* ------------------------------------------------------------ the daemon's world
\* The clock ticks twice a second.
TicksPerSecond == 2

\* SmartFileWatcher.debounce_seconds = 2
debounce_seconds == 2 * TicksPerSecond

\* time.time() when the daemon starts: seconds since 1970, far more than
\* debounce_seconds after the 0 the timestamps are initialised with.
Epoch == 10

\* The paths an event can name: active/task_plan.md, active/context.md,
\* knowledge/<d>.md, and a file that none of the branches of on_modified
\* tracks (for instance active/notes.txt).
TrackedPaths == {"task_plan", "context"} \cup Docs

Paths == TrackedPaths \cup {"untracked"}

\* load_file_cached has no entry for the path
NotCached == -1

\* The events the observer can deliver: a modification of a file, or of a
\* directory (of the watched directory itself, for instance).
FileEvents == {[src_path |-> p, is_directory |-> FALSE] : p \in Paths}

DirEvents == {[src_path |-> "active", is_directory |-> TRUE]}

NoEvent == [path |-> "none", dir |-> FALSE, result |-> "none",
            handler |-> "none"]

InitWatcher ==
    /\ now = Epoch
    /\ last_task_plan_update = 0
    /\ last_context_update = 0
    /\ last_knowledge_update = 0
    /\ wst = "watching"
    /\ ledger = [completed |-> 0, total |-> 0]
    /\ file_cache = [d \in Docs |-> NotCached]
    /\ events = 0
    /\ wlog = NoEvent
    /\ lastAccepted = [p \in TrackedPaths |-> 0]
    /\ failed = FALSE

InitEmbedder ==
    /\ doc = InitDoc
    /\ cacheFile = NoCacheFile
    /\ npy = [d \in Docs |-> NoFile]
    /\ json = [d \in Docs |-> NoFile]
    /\ pc = "idle"
    /\ force = FALSE
    /\ i = 1
    /\ hash_cache = EmptyCache
    /\ current_hash = EmptyDigest
    /\ sections = << >>
    /\ ret = FALSE
    /\ exit = "none"
    /\ indexed = [d \in Docs |-> {}]
    /\ lastSaved = EmptyCache
    /\ rets = [d \in Docs |-> << >>]
    /\ writes = 0
    /\ kills = 0
    /\ rpc = "idle"
    /\ rd = knowledge_files[1]
    /\ rnpy = NoFile
    /\ robs = NoObs

\* No search, no cross-reference run and no parse has been made.
NoCallYet == [status |-> "none"]

InitRetrieval ==
    /\ sin = NoCallYet
    /\ sout = NoCallYet
    /\ xin = NoCallYet
    /\ xout = NoCallYet
    /\ pin = NoCallYet
    /\ pout = NoCallYet

\* the processes that run side by side, one per terminal
Procs == {1, 2}

\* no claim_file call is running in the process
NoClaim == [pc |-> "idle", row |-> << >>, result |-> "none"]

\* the files the sessions claim
ClaimPaths == {"src/a.py", "src/b.py"}

\* sessions.db after init_database: no row in file_claims
NoClaims ==
    [file_claims |-> {}, first |-> [f \in ClaimPaths |-> << >>],
     call |-> [q \in Procs |-> NoClaim], n |-> 0]

\* the process waits for a line that detect_error accepts
Idle == [pc |-> "idle", buffer |-> << >>, n |-> 0]

\* SessionOrchestrator.__init__: file_watcher_process is None
NoProcess == 0

\* no session-orchestrator.py has run and no file watcher is running
NoSession ==
    [running |-> {}, pc |-> "none", file_watcher_process |-> NoProcess,
     last |-> "none", n |-> 0]

\* active/.extraction_needed.txt does not exist
NoPrompt == [reason |-> <<"none", 0>>]

\* no smart-prompt-helper.py has run
NoHelperYet ==
    [file |-> NoPrompt,
     last |-> [op |-> "none", found |-> NoPrompt, discoveries |-> 0,
               completed_phases |-> 0, errors |-> 0],
     n |-> 0]

\* knowledge/vectors does not exist yet: no index of either writer for any
\* document, no hash cache
NoJson == [by |-> "none", n |-> 0]

InitShared ==
    /\ vectors = [npy |-> [d \in Docs |-> 0], json |-> [d \in Docs |-> NoJson],
                  hash_cache |-> FALSE]
    /\ procs = [p \in Procs |-> Idle]
    /\ registry = NoClaims
    /\ orchestrator = NoSession
    /\ prompt = NoHelperYet
    /\ progress = NoCallYet

Init ==
    InitEmbedder /\ InitWatcher /\ InitMonitor /\ InitRetrieval /\ InitShared

\* ------------------------------------------------------------ check_and_embed_file
\* (mutants) SyncOutcome_NoHashCheck rebuilds whatever the cached digest
\* is; SyncOutcome_EmbedsEmpty does not stop at an empty list of sections.
\*
\* The branch check_and_embed_file takes for a document of content c whose
\* cached digest is `cached`:
\*   "missing"   current_hash is empty                     -> return False
\*   "uptodate"  current_hash == cached_hash and not force -> return False
\*   "skip"      parse_sections returned no section        -> return False
\*   "embed"     the index is rebuilt                      -> return True
SyncOutcome_NoHashCheck(c, cached, f) ==
    IF hash_file(c) = EmptyDigest THEN "missing"
    ELSE IF Len(parse_sections(c)) = 0 THEN "skip"
    ELSE "embed"

SyncOutcome_EmbedsEmpty(c, cached, f) ==
    IF hash_file(c) = EmptyDigest THEN "missing"
    ELSE IF hash_file(c) = cached /\ ~f THEN "uptodate"
    ELSE "embed"

SyncOutcome(c, cached, f) ==
    IF hash_file(c) = EmptyDigest THEN "missing"
    ELSE IF hash_file(c) = cached /\ ~f THEN "uptodate"
    ELSE IF Len(parse_sections(c)) = 0 THEN "skip"
    ELSE "embed"

\* the document the loop of auto_embed_all is at
cur == knowledge_files[i]

InitLocals ==
    /\ force' = FALSE
    /\ i' = 1
    /\ hash_cache' = EmptyCache
    /\ current_hash' = EmptyDigest
    /\ sections' = << >>
    /\ ret' = FALSE

\* ------------------------------------------------------------ document writers
\* A human or an upstream process rewrites, creates or deletes a document.
WriteDoc(d, c) ==
    /\ writes < MaxWrites
    /\ c # doc[d]
    /\ doc' = [doc EXCEPT ![d] = c]
    /\ writes' = writes + 1
    /\ rets' = [rets EXCEPT ![d] = << >>]
    /\ UNCHANGED <<cacheFile, npy, json, pc, locals, exit, indexed, lastSaved,
                   kills, reader, outside>>

\* ------------------------------------------------------------ auto_embed_all
\* SentenceTransformer(MODEL_NAME) raises: the process prints and exits.
LoadModelFails ==
    /\ pc = "idle"
    /\ exit' = "no_model"
    /\ InitLocals
    /\ UNCHANGED <<files, pc, hist, reader, outside>>

\* The model loads; hash_cache = load_hash_cache(); the loop starts.
StartRun(f) ==
    /\ pc = "idle"
    /\ pc' = "loop"
    /\ exit' = "none"
    /\ force' = f
    /\ i' = 1
    /\ hash_cache' = load_hash_cache(cacheFile)
    /\ current_hash' = EmptyDigest
    /\ sections' = << >>
    /\ ret' = FALSE
    /\ UNCHANGED <<files, hist, reader, outside>>

\* for file_path in knowledge_files: the file does not exist
SkipMissing ==
    /\ pc = "loop" /\ i <= NumFiles
    /\ doc[cur] = Missing
    /\ i' = i + 1
    /\ UNCHANGED <<files, pc, force, hash_cache, current_hash, sections, ret,
                   exit, hist, reader, outside>>

\* check_and_embed_file: "up to date", return False
CheckUpToDate ==
    /\ pc = "loop" /\ i <= NumFiles
    /\ SyncOutcome(doc[cur], hash_cache[cur], force) = "uptodate"
    /\ ret' = FALSE
    /\ i' = i + 1
    /\ UNCHANGED <<files, pc, force, hash_cache, current_hash, sections, exit,
                   hist, reader, outside>>

\* check_and_embed_file: "No sections found, skipping", return False
CheckNoSections ==
    /\ pc = "loop" /\ i <= NumFiles
    /\ SyncOutcome(doc[cur], hash_cache[cur], force) = "skip"
    /\ ret' = FALSE
    /\ i' = i + 1
    /\ UNCHANGED <<files, pc, force, hash_cache, current_hash, sections, exit,
                   hist, reader, outside>>

\* (mutant) the digest is recorded before save_embeddings has run
EmbedOk_CommitsFirst ==
    /\ pc = "loop" /\ i <= NumFiles
    /\ SyncOutcome(doc[cur], hash_cache[cur], force) = "embed"
    /\ current_hash' = hash_file(doc[cur])
    /\ sections' = parse_sections(doc[cur])
    /\ hash_cache' = Committed(hash_cache, cur, hash_file(doc[cur]))
    /\ pc' = "npy_open"
    /\ UNCHANGED <<files, force, i, ret, exit, hist, reader, outside>>

\* check_and_embed_file: the sections are parsed and model.encode returns
EmbedOk ==
    /\ pc = "loop" /\ i <= NumFiles
    /\ SyncOutcome(doc[cur], hash_cache[cur], force) = "embed"
    /\ current_hash' = hash_file(doc[cur])
    /\ sections' = parse_sections(doc[cur])
    /\ pc' = "npy_open"
    /\ UNCHANGED <<files, force, i, hash_cache, ret, exit, hist, reader, outside>>

\* (mutant) the digest is recorded and saved although model.encode raised
EmbedFails_Commits ==
    /\ pc = "loop" /\ i <= NumFiles
    /\ SyncOutcome(doc[cur], hash_cache[cur], force) = "embed"
    /\ current_hash' = hash_file(doc[cur])
    /\ hash_cache' = Committed(hash_cache, cur, hash_file(doc[cur]))
    /\ cacheFile' = WrittenCacheFile(hash_cache')
    /\ lastSaved' = hash_cache'
    /\ pc' = "idle"
    /\ exit' = "exception"
    /\ UNCHANGED <<doc, npy, json, force, i, sections, ret, indexed, rets,
                   writes, kills, reader, outside>>

\* check_and_embed_file: model.encode raises.  Nothing catches the exception
\* in check_and_embed_file, auto_embed_all or main: the process ends with
\* a traceback.  The locals stay as they were when it ended, until the
\* next run starts.
EmbedFails ==
    /\ pc = "loop" /\ i <= NumFiles
    /\ SyncOutcome(doc[cur], hash_cache[cur], force) = "embed"
    /\ current_hash' = hash_file(doc[cur])
    /\ pc' = "idle"
    /\ exit' = "exception"
    /\ UNCHANGED <<files, force, i, hash_cache, sections, ret, hist, reader, outside>>

\* save_embeddings: np.save opens <stem>.npy for writing
NpyOpen ==
    /\ pc = "npy_open"
    /\ npy' = [npy EXCEPT ![cur] = Truncated]
    /\ pc' = "npy_write"
    /\ UNCHANGED <<doc, cacheFile, json, locals, exit, hist, reader, outside>>

\* save_embeddings: np.save writes the vectors
NpyWrite ==
    /\ pc = "npy_write"
    /\ npy' = [npy EXCEPT ![cur] =
                  Written(SrcOf(sections), Len(embed_sections(sections)))]
    /\ pc' = "json_open"
    /\ UNCHANGED <<doc, cacheFile, json, locals, exit, hist, reader, outside>>

\* save_embeddings: open(metadata_file, 'w')
JsonOpen ==
    /\ pc = "json_open"
    /\ json' = [json EXCEPT ![cur] = Truncated]
    /\ pc' = "json_write"
    /\ UNCHANGED <<doc, cacheFile, npy, locals, exit, hist, reader, outside>>

\* save_embeddings: json.dump(metadata, f)
JsonWrite ==
    /\ pc = "json_write"
    /\ json' = [json EXCEPT ![cur] = Written(SrcOf(sections), Len(sections))]
    /\ indexed' = [indexed EXCEPT ![cur] = @ \cup {SrcOf(sections)}]
    /\ pc' = "commit"
    /\ UNCHANGED <<doc, cacheFile, npy, locals, exit, lastSaved, rets, writes,
                   kills, reader, outside>>

\* check_and_embed_file: hash_cache[file_key] = current_hash; return True
Commit ==
    /\ pc = "commit"
    /\ hash_cache' = Committed(hash_cache, cur, current_hash)
    /\ ret' = TRUE
    /\ i' = i + 1
    /\ pc' = "loop"
    /\ current_hash' = EmptyDigest
    /\ sections' = << >>
    /\ UNCHANGED <<files, force, exit, hist, reader, outside>>

\* the loop is over: save_hash_cache opens the cache file for writing
SaveOpen ==
    /\ pc = "loop" /\ i > NumFiles
    /\ cacheFile' = TruncatedCacheFile
    /\ pc' = "save_write"
    /\ UNCHANGED <<doc, npy, json, locals, exit, hist, reader, outside>>

\* save_hash_cache: json.dump(cache, f); the run is complete
SaveWrite ==
    /\ pc = "save_write"
    /\ cacheFile' = WrittenCacheFile(hash_cache)
    /\ lastSaved' = hash_cache
    /\ pc' = "idle"
    /\ exit' = "ok"
    /\ InitLocals
    /\ UNCHANGED <<doc, npy, json, indexed, rets, writes, kills, reader, outside>>

\* The process is killed (or the machine stops) between two steps.
Crash ==
    /\ pc # "idle"
    /\ kills < MaxKills
    /\ kills' = kills + 1
    /\ pc' = "idle"
    /\ exit' = "killed"
    /\ InitLocals
    /\ UNCHANGED <<files, indexed, lastSaved, rets, writes, reader, outside>>

Run ==
    \/ LoadModelFails
    \/ \E f \in BOOLEAN : StartRun(f)
    \/ SkipMissing
    \/ CheckUpToDate
    \/ CheckNoSections
    \/ EmbedOk
    \/ EmbedFails
    \/ NpyOpen
    \/ NpyWrite
    \/ JsonOpen
    \/ JsonWrite
    \/ Commit
    \/ SaveOpen
    \/ SaveWrite

Write == \E d \in Docs, c \in {Missing} \cup Contents : WriteDoc(d, c)

Next == Run \/ Crash \/ Write

Spec == Init /\ [][Next]_vars

\* ------------------------------------------------------------ check_status
\* check_status: how the status report classifies a document, from the
\* persisted hash cache.
check_status(d) ==
    IF doc[d] = Missing THEN "missing"
    ELSE IF hash_file(doc[d]) # load_hash_cache(cacheFile)[d] THEN "changed"
    ELSE "unchanged"

\* Both index files of d are completely written.
IndexExists(d) == npy[d].st = "ok" /\ json[d].st = "ok"

\* Both index files of d are completely written and were built from content c.
IndexBuiltFrom(d, c) == IndexExists(d) /\ npy[d].src = c /\ json[d].src = c

\* The index of d holds a vector and a metadata entry for every record of
\* parse_sections(c).
IndexCovers(d, c) ==
    \A k \in 1..Len(parse_sections(c)) :
        IndexBuiltFrom(d, c) /\ k <= npy[d].n /\ k <= json[d].n

\* ------------------------------------------------------------ find_cross_references
\* One iteration of the loop that loads the embeddings of a document type:
\* both files exist, np.load(embedding_file).  A truncated file makes
\* np.load raise, the bare except skips the type.
XrefLoadNpy(d) ==
    /\ rpc = "idle"
    /\ npy[d].st # "none" /\ json[d].st # "none"
    /\ IF npy[d].st = "ok"
          THEN /\ rpc' = "npy_loaded"
               /\ rd' = d
               /\ rnpy' = npy[d]
               /\ robs' = NoObs
          ELSE /\ robs' = [st |-> "skipped", npy |-> Missing, json |-> Missing]
               /\ UNCHANGED <<rpc, rd, rnpy>>
    /\ UNCHANGED <<files, pc, locals, exit, hist, outside>>

\* json.load(metadata_file): the type is kept with the vectors loaded before
\* and the sections loaded now; a truncated file makes json.load raise.
XrefLoadJson ==
    /\ rpc = "npy_loaded"
    /\ rpc' = "idle"
    /\ rnpy' = NoFile
    /\ robs' = IF json[rd].st = "ok"
                 THEN [st |-> "loaded", npy |-> rnpy.src, json |-> json[rd].src]
                 ELSE [st |-> "skipped", npy |-> Missing, json |-> Missing]
    /\ UNCHANGED <<files, pc, locals, exit, hist, rd, outside>>

Xref == (\E d \in Docs : XrefLoadNpy(d)) \/ XrefLoadJson

NextReader == Run \/ Crash \/ Write \/ Xref

SpecReader == Init /\ [][NextReader]_vars

\* ------------------------------------------------------------ sync(document)
\* the last two entries of a sequence
Last2(q) == IF Len(q) <= 2 THEN q ELSE SubSeq(q, Len(q) - 1, Len(q))

\* One whole call check_and_embed_file(knowledge_files[k], model, hash_cache,
\* f) in which model.encode returns.
check_and_embed_file(k, f) ==
    LET d == knowledge_files[k]
        secs == parse_sections(doc[d])
    IN  /\ pc = "idle"
        /\ i' = k
        /\ force' = f
        /\ IF SyncOutcome(doc[d], hash_cache[d], f) = "embed"
              THEN /\ npy' = [npy EXCEPT ![d] =
                                 Written(doc[d], Len(embed_sections(secs)))]
                   /\ json' = [json EXCEPT ![d] = Written(doc[d], Len(secs))]
                   /\ indexed' = [indexed EXCEPT ![d] = @ \cup {doc[d]}]
                   /\ hash_cache' = Committed(hash_cache, d, hash_file(doc[d]))
                   /\ ret' = TRUE
              ELSE /\ ret' = FALSE
                   /\ UNCHANGED <<npy, json, indexed, hash_cache>>
        /\ rets' = [rets EXCEPT ![d] =
                       Last2(Append(@, ret'))]
        /\ UNCHANGED <<doc, cacheFile, pc, current_hash, sections, exit,
                       lastSaved, writes, kills, reader, outside>>

Sync == \E k \in 1..NumFiles, f \in BOOLEAN : check_and_embed_file(k, f)

NextSync == Sync \/ Write

SpecSync == Init /\ [][NextSync]_vars

\* ------------------------------------------------------------ load_file_cached
\* cache_manager.load_file_cached(path) within one process: the lru_cache
\* returns the entry of the path when there is one; otherwise the file is
\* read ("" when it does not exist) and the result is stored.
LoadResult(d) == IF file_cache[d] # NotCached THEN file_cache[d] ELSE doc[d]

load_file_cached(d) ==
    /\ file_cache' = [file_cache EXCEPT ![d] = LoadResult(d)]
    /\ UNCHANGED <<doc, embedder, watcher, monitor, retrieval, shared>>

\* ------------------------------------------------------------ SmartFileWatcher
\* What the handlers can find when they read their files: task_plan.md is
\* unreadable, has no "## Phases" section, or has `total` phase lines of
\* which `completed` are ticked.
TaskPlans ==
    {[st |-> "unreadable", completed |-> 0, total |-> 0],
     [st |-> "no_phases", completed |-> 0, total |-> 0],
     [st |-> "phases", completed |-> 0, total |-> 0],
     [st |-> "phases", completed |-> 1, total |-> 1]}

\* What update_continuity_ledger can find: the ledger does not exist, reading
\* or writing it raises, or it is rewritten.
LedgerIO == {"missing", "error", "ok"}

\* update_continuity_ledger(completed, total, current_phase), called inside
\* the try block of handle_task_plan_update.
update_continuity_ledger(tp, lg) ==
    IF lg = "missing" THEN "no_ledger"
    ELSE IF lg = "error" THEN "ledger_error"
    ELSE "progress"

\* handle_task_plan_update: what the handler ends with.
handle_task_plan_update(tp, lg) ==
    IF tp.st = "unreadable" THEN "error"
    ELSE IF tp.st = "no_phases" THEN "return"
    ELSE IF tp.total = 0 THEN "return"
    ELSE update_continuity_ledger(tp, lg)

\* handle_context_update: cx is "unreadable" when open or read raises.
handle_context_update(cx) == IF cx = "unreadable" THEN "error" ELSE "checked"

HandlerErrors == {"error", "ledger_error"}

\* (mutant) an exception raised in a handler leaves on_modified
AfterHandler_Propagates(h) == IF h \in HandlerErrors THEN "crashed" ELSE "watching"

\* Every handler catches Exception and prints: whatever the handler ended
\* with, on_modified returns and the observer goes on dispatching.
AfterHandler(h) == "watching"

\* (mutant) the handler rebuilds the index of the document and records its
\* digest
handle_knowledge_update_Rebuilds(p) ==
    /\ npy' = [npy EXCEPT ![p] = Written(doc[p], Len(parse_sections(doc[p])))]
    /\ json' = [json EXCEPT ![p] = Written(doc[p], Len(parse_sections(doc[p])))]
    /\ cacheFile' = WrittenCacheFile(Committed(load_hash_cache(cacheFile), p,
                                               hash_file(doc[p])))
    /\ UNCHANGED hash_cache

\* handle_knowledge_update: two print calls.
handle_knowledge_update(p) ==
    UNCHANGED <<npy, json, cacheFile, hash_cache>>

\* the timestamp on_modified compares an event on path p with
LastUpdate(p) ==
    IF p = "task_plan" THEN last_task_plan_update
    ELSE IF p = "context" THEN last_context_update
    ELSE last_knowledge_update

\* an event that on_modified returns from without doing anything
Ignored(p, d) ==
    /\ wlog' = [path |-> p, dir |-> d, result |-> "ignored", handler |-> "none"]
    /\ UNCHANGED <<timestamps, wst, ledger, lastAccepted, failed>>
    /\ UNCHANGED <<npy, json, cacheFile, hash_cache>>

\* an event inside the debounce window
Dropped(p) ==
    /\ wlog' = [path |-> p, dir |-> FALSE, result |-> "dropped",
                handler |-> "none"]
    /\ UNCHANGED <<timestamps, wst, ledger, lastAccepted, failed>>
    /\ UNCHANGED <<npy, json, cacheFile, hash_cache>>

\* an accepted event whose handler ended with h
Accepted(p, h) ==
    /\ wlog' = [path |-> p, dir |-> FALSE, result |-> "accepted", handler |-> h]
    /\ lastAccepted' = [lastAccepted EXCEPT ![p] = now]
    /\ failed' = (failed \/ h \in HandlerErrors)
    /\ wst' = AfterHandler(h)

\* SmartFileWatcher.on_modified(event) with the handler it calls.
on_modified(event, tp, cx, lg) ==
  LET p == event.src_path IN
    /\ wst = "watching"
    /\ events < MaxEvents
    /\ events' = events + 1
    /\ IF event.is_directory \/ p \notin TrackedPaths
          THEN Ignored(p, event.is_directory)
       ELSE IF ~(now - LastUpdate(p) > debounce_seconds)
          THEN Dropped(p)
       ELSE IF p = "task_plan"
          THEN /\ last_task_plan_update' = now
               /\ Accepted(p, handle_task_plan_update(tp, lg))
               /\ ledger' = IF handle_task_plan_update(tp, lg) = "progress"
                               THEN [completed |-> tp.completed,
                                     total |-> tp.total]
                               ELSE ledger
               /\ UNCHANGED <<last_context_update, last_knowledge_update>>
               /\ UNCHANGED <<npy, json, cacheFile, hash_cache>>
       ELSE IF p = "context"
          THEN /\ last_context_update' = now
               /\ Accepted(p, handle_context_update(cx))
               /\ UNCHANGED <<last_task_plan_update, last_knowledge_update,
                              ledger>>
               /\ UNCHANGED <<npy, json, cacheFile, hash_cache>>
       ELSE /\ last_knowledge_update' = now
            /\ Accepted(p, "logged")
            /\ handle_knowledge_update(p)
            /\ UNCHANGED <<last_task_plan_update, last_context_update, ledger>>
    /\ UNCHANGED <<doc, pc, force, i, current_hash, sections, ret, exit, hist,
                   reader, now, file_cache, monitor, retrieval, shared>>

\* time passes
Tick ==
    /\ now < Epoch + MaxTime
    /\ now' = now + 1
    /\ UNCHANGED <<doc, embedder, file_cache, timestamps, wst, ledger, events,
                   wlog, lastAccepted, failed, monitor, retrieval, shared>>

\* what a handler finds when nothing is wrong with the file it reads
NoPhases == [st |-> "no_phases", completed |-> 0, total |-> 0]

\* An event on task_plan.md: the handler reads task_plan.md and the ledger.
TaskPlanEvent ==
    \E tp \in TaskPlans, lg \in LedgerIO :
        on_modified([src_path |-> "task_plan", is_directory |-> FALSE],
                    tp, "readable", lg)

\* An event on context.md: the handler reads context.md.
ContextEvent ==
    \E cx \in {"unreadable", "readable"} :
        on_modified([src_path |-> "context", is_directory |-> FALSE],
                    NoPhases, cx, "ok")

\* An event on a knowledge document, an untracked file or a directory: no
\* file is read.
DocumentEvent ==
    \E event \in FileEvents \cup DirEvents :
        /\ event.src_path \notin {"task_plan", "context"}
        /\ on_modified(event, NoPhases, "readable", "ok")

Event == TaskPlanEvent \/ ContextEvent \/ DocumentEvent

NextWatcher == Event \/ Tick

SpecWatcher == Init /\ [][NextWatcher]_vars

\* The daemon with time passing: the loop of start_watching sleeps and
\* wakes, the clock goes on; whether further events arrive is up to the
\* writers of the files.
SpecWatcherLive == Init /\ [][NextWatcher]_vars /\ WF_vars(Tick)

\* ------------------------------------------------------------ daemon and read cache
\* A process that reads the knowledge documents through load_file_cached,
\* the writers of the documents, and the daemon receiving the events of
\* the knowledge directory.
Load == \E d \in Docs : load_file_cached(d)

\* The daemon next to a process that calls check_and_embed_file.
NextDaemon == DocumentEvent \/ Sync

SpecDaemon == Init /\ [][NextDaemon]_vars

NextCache == DocumentEvent \/ Tick \/ Write \/ Load

SpecCache == Init /\ [][NextCache]_vars

\* ------------------------------------------------------------ error monitor
\* process_error_from_buffer(buffer): the symptom and the stack trace are
\* taken from the buffer, add_to_failures_md appends a record unless the
\* fingerprint tag is in the file, add_to_error_log_table adds a row.
process_error_from_buffer(buffer) ==
    LET symptom == extract_error_symptom(buffer)
        stack_trace == extract_stack_trace(buffer)
        fingerprint == generate_error_fingerprint(symptom, stack_trace)
        skip == fp_in_content(fingerprint, failures_md)
    IN  /\ ncaptures < MaxCaptures
        /\ ncaptures' = ncaptures + 1
        /\ failures_md' = IF skip THEN failures_md
                          ELSE written(failures_md,
                                       ErrorRecord(symptom, fingerprint))
        /\ error_log' = add_to_error_log_table(symptom)
        /\ captures' = Last2(Append(captures,
                           [buffer |-> buffer, fingerprint |-> fingerprint,
                            accepted |-> ~skip]))
        /\ UNCHANGED <<doc, embedder, watcher, file_cache, fin, fout,
                       retrieval, shared>>

Capture == \E buffer \in Buffers : process_error_from_buffer(buffer)

NextMonitor == Capture

InitOfMonitor ==
    InitEmbedder /\ InitWatcher /\ InitCaptures /\ InitRetrieval /\ InitShared

SpecMonitor == InitOfMonitor /\ [][NextMonitor]_vars

\* ------------------------------------------------------------ fingerprints
\* generate_error_fingerprint called with one symptom and two stack traces
Fingerprint ==
    /\ fout = NoCall
    /\ fout' = [a |-> generate_error_fingerprint(fin.symptom, fin.a),
                b |-> generate_error_fingerprint(fin.symptom, fin.b)]
    /\ UNCHANGED <<doc, embedder, watcher, file_cache, failures_md, error_log,
                   captures, ncaptures, fin, retrieval, shared>>

NextFingerprint == Fingerprint

InitOfFingerprint ==
    InitEmbedder /\ InitWatcher /\ InitFingerprint /\ InitRetrieval
        /\ InitShared

SpecFingerprint == InitOfFingerprint /\ [][NextFingerprint]_vars

\* ------------------------------------------------------------ embeddings
\* An embedding is a vector of two integer coordinates whose norm is an
\* integer, so that every cosine is a multiple of 1/Unit and is computed
\* exactly.  Similarities and thresholds are counted in that unit.
Unit == 25

Zero == <<0, 0>>

Vectors == {Zero, <<1, 0>>, <<3, 4>>}

\* model.encode(query)
Queries == {<<1, 0>>}

dot(a, b) == a[1] * b[1] + a[2] * b[2]

norm(a) == CHOOSE n \in 0..Unit : n * n = dot(a, a)

\* The quotient of 0.0 by 0.0: numpy warns and returns nan; every
\* comparison with nan is false.
NaN == Unit + 1

\* np.dot(a, b) / (np.linalg.norm(a) * np.linalg.norm(b))
similarity(a, b) ==
    IF norm(a) * norm(b) = 0 THEN NaN
    ELSE (dot(a, b) * Unit) \div (norm(a) * norm(b))

\* the division of similarity(a, b) has a zero divisor
zero_divisor(a, b) == norm(a) * norm(b) = 0

\* similarity >= threshold
at_least(s, threshold) == s # NaN /\ s >= threshold

\* threshold: a value every cosine reaches, the cosine of <<1, 0>> and
\* <<3, 4>>, and the next value above it
Thresholds == {-Unit, 15, 16}

\* s[:n], n >= 0
first_All(s, n) == s

first(s, n) == SubSeq(s, 1, IF n < Len(s) THEN n ELSE Len(s))

\* list.sort(key=lambda x: x[key], reverse=True) is an insertion of the
\* elements, first to last, each behind the elements whose key is not
\* smaller: elements with equal keys keep their order.
RECURSIVE inserted_BeforeEqual(_, _, _)
inserted_BeforeEqual(x, s, key) ==
    IF s = << >> THEN <<x>>
    ELSE IF Head(s)[key] > x[key]
         THEN <<Head(s)>> \o inserted_BeforeEqual(x, Tail(s), key)
         ELSE <<x>> \o s

RECURSIVE inserted(_, _, _)
inserted(x, s, key) ==
    IF s = << >> THEN <<x>>
    ELSE IF Head(s)[key] >= x[key]
         THEN <<Head(s)>> \o inserted(x, Tail(s), key)
         ELSE <<x>> \o s

RECURSIVE sort_reverse(_, _)
sort_reverse(s, key) ==
    IF s = << >> THEN << >>
    ELSE inserted(s[Len(s)], sort_reverse(SubSeq(s, 1, Len(s) - 1), key), key)

\* ------------------------------------------------------------ the vectors directory
\* knowledge/vectors holds *.json files of three writers:
\*   generate_embeddings of vector-search.py   <stem>.json, sections with
\*                                             header, content, embedding
\*   save_embeddings of auto-embedder.py       <stem>.json, sections with
\*                                             id, file, content, preview
\*   save_hash_cache of auto-embedder.py       .hash_cache.json, a mapping
\*                                             of document to digest
\* The header and the content of a section are its position in the file.
MaxEntries == 2

Rows == UNION {[1..n -> Vectors] : n \in 1..MaxEntries}

SearchFile(stem, rows) ==
    [stem |-> stem,
     sections |-> [k \in 1..Len(rows) |-> [header |-> k, embedding |-> rows[k]]]]

MetadataFile(stem, n) ==
    [stem |-> stem, sections |-> [k \in 1..n |-> [id |-> k, preview |-> k]]]

HashCacheFile == [stem |-> ".hash_cache", digests |-> EmptyCache]

JsonFiles ==
    {SearchFile(d, rows) : d \in Docs, rows \in Rows}
        \cup {MetadataFile(d, 1) : d \in Docs}
        \cup {HashCacheFile}

\* the number of sections of a file, 1 for the hash cache
Weight(file) == IF "sections" \in DOMAIN file THEN Len(file.sections) ELSE 1

RECURSIVE TotalWeight(_)
TotalWeight(dir) ==
    IF dir = << >> THEN 0 ELSE Weight(Head(dir)) + TotalWeight(Tail(dir))

\* VECTOR_DIR.glob("*.json"): the files in any order, no name twice
Dirs ==
    {dir \in SeqsUpTo(JsonFiles, MaxEntries) :
        /\ \A k, l \in 1..Len(dir) : k # l => dir[k].stem # dir[l].stem
        /\ TotalWeight(dir) <= MaxEntries}

\* vector_data["sections"] and section["embedding"] exist
Readable(file) ==
    /\ "sections" \in DOMAIN file
    /\ \A k \in 1..Len(file.sections) : "embedding" \in DOMAIN file.sections[k]

\* ------------------------------------------------------------ search_semantic
\* Stage 1, the loop over the sections of one file
matches(file, query_embedding, threshold) ==
    LET result(k) ==
            LET s == similarity(query_embedding, file.sections[k].embedding)
            IN  [type |-> file.stem, header |-> file.sections[k].header,
                 similarity |-> s, score |-> s]
        kept(r) == at_least(r.similarity, threshold)
    IN  SelectSeq([k \in 1..Len(file.sections) |-> result(k)], kept)

\* Stage 1, the loop over the files
RECURSIVE scanned(_, _, _)
scanned(dir, query_embedding, threshold) ==
    IF dir = << >> THEN << >>
    ELSE matches(Head(dir), query_embedding, threshold)
             \o scanned(Tail(dir), query_embedding, threshold)

\* some division of Stage 1 had a zero divisor
divided_by_zero(dir, query_embedding) ==
    \E f \in 1..Len(dir) : \E k \in 1..Len(dir[f].sections) :
        zero_divisor(query_embedding, dir[f].sections[k].embedding)

\* candidate.copy() with the three keys rerank_results sets
scored(candidate, s) ==
    ("rerank_score" :> s) @@ ("vector_score" :> candidate.score)
        @@ ("score" :> s) @@ candidate

\* The candidates list after rerank_results: the scores are set on copies.
candidates_after_InPlace(candidates, reranked) == reranked

candidates_after(candidates, reranked) == candidates

\* what the cross-encoder does in one call of rerank_results
Outcomes == {"load_failed", "predict_failed", "scored"}

\* model.predict(pairs)[k]
Scores == {1, 2}

\* rerank_results(query, candidates, top_k), top_k an integer.  ret is the
\* list returned, candidates the list of the caller after the call.
rerank_results(available, candidates, top_k, outcome, scores) ==
    IF ~available
    THEN [ret |-> IF top_k # 0 THEN first(candidates, top_k) ELSE candidates,
          candidates |-> candidates]
    ELSE IF candidates = << >>
    THEN [ret |-> << >>, candidates |-> candidates]
    ELSE IF outcome = "load_failed"
    THEN [ret |-> first(candidates, top_k), candidates |-> candidates]
    ELSE IF outcome = "predict_failed"
    THEN [ret |-> first(candidates, top_k), candidates |-> candidates]
    ELSE LET reranked ==
                 [k \in 1..Len(candidates) |-> scored(candidates[k], scores[k])]
         IN  [ret |-> first(sort_reverse(reranked, "rerank_score"), top_k),
              candidates |-> candidates_after(candidates, reranked)]

\* search_semantic(query, threshold, use_reranking, top_k) in an environment
\* env: the directory, whether `import reranker` succeeded, the configured
\* semantic_search.reranker_top_k, what the cross-encoder does.  The search
\* runs only if sentence_transformers and numpy import (vector-search.py
\* exits otherwise), and then RERANKER_AVAILABLE of reranker.py is true.
\*   stage1      results after the sort of Stage 1
\*   handed      the candidates list after Stage 2, if Stage 2 was entered
\*   results     the results displayed
search_semantic(query_embedding, threshold, use_reranking, top_k, env) ==
    IF \E f \in 1..Len(env.dir) : ~Readable(env.dir[f])
    THEN [status |-> "KeyError"]
    ELSE
    LET results ==
            sort_reverse(scanned(env.dir, query_embedding, threshold),
                         "similarity")
        candidates == first(results, env.rerank_top_k)
        stage2 == rerank_results(TRUE, candidates, top_k, env.outcome,
                                 env.scores)
        zero == divided_by_zero(env.dir, query_embedding)
    IN  IF use_reranking /\ env.RERANKER_AVAILABLE /\ results # << >>
        THEN [status |-> "returned", stage1 |-> results, entered |-> TRUE,
              handed |-> stage2.candidates, results |-> stage2.ret,
              zero |-> zero]
        ELSE [status |-> "returned", stage1 |-> results, entered |-> FALSE,
              handed |-> << >>, results |-> first(results, top_k),
              zero |-> zero]

MaxTopK == 2

\* semantic_search.reranker_top_k of the configuration
RerankTopKs == 1..MaxTopK

NoScores == << >>

Search(use_reranking, env) ==
    /\ sout = NoCallYet
    /\ \E query_embedding \in Queries, threshold \in Thresholds,
          top_k \in 0..MaxTopK :
        /\ sin' = [query_embedding |-> query_embedding,
                   threshold |-> threshold, use_reranking |-> use_reranking,
                   top_k |-> top_k, env |-> env]
        /\ sout' = search_semantic(query_embedding, threshold, use_reranking,
                                   top_k, env)
    /\ UNCHANGED <<doc, embedder, watcher, file_cache, monitor, shared,
                   xin, xout,
                   pin, pout>>

\* a search without --rerank
SearchVectorsOnly ==
    \E dir \in Dirs :
        Search(FALSE, [dir |-> dir, RERANKER_AVAILABLE |-> TRUE,
                       rerank_top_k |-> 1, outcome |-> "scored",
                       scores |-> NoScores])

\* --rerank, and `import reranker` raised ImportError
SearchUnavailable ==
    \E dir \in Dirs, n \in RerankTopKs :
        Search(TRUE, [dir |-> dir, RERANKER_AVAILABLE |-> FALSE,
                      rerank_top_k |-> n, outcome |-> "scored",
                      scores |-> NoScores])

\* --rerank, and the cross-encoder fails to load or to score
SearchDegraded ==
    \E dir \in Dirs, n \in RerankTopKs,
       outcome \in {"load_failed", "predict_failed"} :
        Search(TRUE, [dir |-> dir, RERANKER_AVAILABLE |-> TRUE,
                      rerank_top_k |-> n, outcome |-> outcome,
                      scores |-> NoScores])

\* --rerank, and the cross-encoder scores the candidates
SearchReranked ==
    \E dir \in Dirs, n \in RerankTopKs :
        \E scores \in [1..(IF TotalWeight(dir) < n THEN TotalWeight(dir) ELSE n)
                          -> Scores] :
            Search(TRUE, [dir |-> dir, RERANKER_AVAILABLE |-> TRUE,
                          rerank_top_k |-> n, outcome |-> "scored",
                          scores |-> scores])

NextSearch ==
    SearchVectorsOnly \/ SearchUnavailable \/ SearchDegraded \/ SearchReranked

SpecSearch == Init /\ [][NextSearch]_vars

\* ------------------------------------------------------------ find_cross_references
\* The indexes find_cross_references loads: for every document type the rows
\* of <stem>.npy with the sections of <stem>.json, one section per row, the
\* preview of a section being its position; no rows when a file of the type
\* is missing or does not load.  The last type has at most one section.
Indexes ==
    {index \in [Docs -> Rows \cup {<< >>}] :
        Len(index[knowledge_files[NumFiles]]) <= 1}

\* all_items: the sections of the types in the order of knowledge_files
RECURSIVE all_items(_, _)
all_items(index, k) ==
    IF k > NumFiles THEN << >>
    ELSE [n \in 1..Len(index[knowledge_files[k]]) |->
              [file |-> knowledge_files[k], section |-> n,
               embedding |-> index[knowledge_files[k]][n]]]
             \o all_items(index, k + 1)

\* item_a['file'] == item_b['file']: the pair is not compared
same_file_Never(item_a, item_b) == FALSE

same_file(item_a, item_b) == item_a.file = item_b.file

cross_ref(item_a, item_b) ==
    [file_a |-> item_a.file, title_a |-> item_a.section,
     file_b |-> item_b.file, title_b |-> item_b.section,
     similarity |-> similarity(item_a.embedding, item_b.embedding)]

\* the loops over i and over j from i + 1 on (here m and n): the cross_refs
\* appended from the pair (m, n) on
RECURSIVE compared(_, _, _, _)
compared(items, m, n, threshold) ==
    IF m > Len(items) THEN << >>
    ELSE IF n > Len(items) THEN compared(items, m + 1, m + 2, threshold)
    ELSE (IF /\ ~same_file(items[m], items[n])
             /\ at_least(similarity(items[m].embedding, items[n].embedding),
                         threshold)
          THEN <<cross_ref(items[m], items[n])>>
          ELSE << >>)
             \o compared(items, m, n + 1, threshold)

\* cross_refs[:10]
top10_All(cross_refs) == cross_refs

top10(cross_refs) == first(cross_refs, 10)

\* find_cross_references(threshold), numpy installed
find_cross_references(index, threshold) ==
    LET items == all_items(index, 1)
    IN  [status |-> "returned",
         cross_refs |->
             top10(sort_reverse(compared(items, 1, 2, threshold),
                                "similarity")),
         zero |-> \E m, n \in 1..Len(items) :
                      /\ m < n
                      /\ ~same_file(items[m], items[n])
                      /\ zero_divisor(items[m].embedding, items[n].embedding)]

CrossReferences ==
    /\ xout = NoCallYet
    /\ \E index \in Indexes, threshold \in Thresholds :
        /\ xin' = [index |-> index, threshold |-> threshold]
        /\ xout' = find_cross_references(index, threshold)
    /\ UNCHANGED <<doc, embedder, watcher, file_cache, monitor, shared,
                   sin, sout,
                   pin, pout>>

NextRefs == CrossReferences

SpecRefs == Init /\ [][NextRefs]_vars

\* ------------------------------------------------------------ the section parsers
\* The text of a document is a sequence of lines.  A line is a header line
\* (it begins with the header marker of the document's type, "## Pattern:"
\* for patterns.md), a line that holds the marker behind other text, or a
\* line without the marker.
LineKinds == {"header", "inline", "text"}

MaxText == 3

MaxEdits == 1

Texts == SeqsUpTo(LineKinds, MaxText)

\* patterns.md, failures.md, decisions.md, gotchas.md, and a document the
\* generic prefix "## " is used for
Names == Docs \cup {"notes"}

\* re.split(r'\n' + marker, content): the split points are the header
\* lines that follow a newline
split_points(text) ==
    LET follows_newline(k) == k >= 2 /\ text[k] = "header"
    IN  SelectSeq([k \in 1..Len(text) |-> k], follows_newline)

\* parse_sections of auto-embedder.py on a document of this name and text;
\* the loop of parse_sections_cached is the same.  The id stands for
\* '<stem>_section_<ordinal>', the content is the lines of the section.
parse_text(name, text) ==
    LET at == split_points(text)
        last(n) == IF n < Len(at) THEN at[n + 1] - 1 ELSE Len(text)
    IN  [n \in 1..Len(at) |->
            [id |-> [stem |-> name, ordinal |-> n],
             file |-> name,
             content |-> SubSeq(text, at[n], last(n))]]

\* hashlib.sha256 of the text: different texts have different digests
digest(text) == <<"sha256", text>>

\* load_file_cached has not been called on the path
NotLoaded == <<"not loaded">>

\* The process: the document, the entry of load_file_cached for its path,
\* the entries of parse_sections_cached, the number of writes.
Opened(name, text) ==
    [name |-> name, text |-> text, loaded |-> NotLoaded, parsed |-> {},
     edits |-> 0]

\* what a call returned, and the calls so far as pairs of text and result
Called(by, returned) ==
    [by |-> by, text |-> pin.text, sections |-> returned,
     calls |-> (IF pout = NoCallYet THEN {} ELSE pout.calls)
                   \cup {[text |-> pin.text, sections |-> returned]}]

\* the document is created, by any name and with any text
CreateDocument ==
    /\ pin = NoCallYet
    /\ \E name \in Names, text \in Texts : pin' = Opened(name, text)
    /\ UNCHANGED <<doc, embedder, watcher, file_cache, monitor, shared,
                   sin, sout,
                   xin, xout, pout>>

\* the document is rewritten
EditDocument ==
    /\ pin # NoCallYet
    /\ pin.edits < MaxEdits
    /\ \E text \in Texts \ {pin.text} :
           pin' = [pin EXCEPT !.text = text, !.edits = @ + 1]
    /\ UNCHANGED <<doc, embedder, watcher, file_cache, monitor, shared,
                   sin, sout,
                   xin, xout, pout>>

\* parse_sections(file_path) of auto-embedder.py
ParseSections ==
    /\ pin # NoCallYet
    /\ pout' = Called("parse_sections", parse_text(pin.name, pin.text))
    /\ UNCHANGED <<doc, embedder, watcher, file_cache, monitor, shared,
                   sin, sout,
                   xin, xout, pin>>

\* parse_sections_cached(file_path, file_hash) of cache_manager.py, called
\* with the digest of the current text: the result stored for the path and
\* the digest if there is one, else the parse of what load_file_cached
\* returns for the path, which is the text it read at its first call.
ParseSectionsCached ==
    /\ pin # NoCallYet
    /\ LET hit == {e \in pin.parsed : e.hash = digest(pin.text)}
           content == IF pin.loaded = NotLoaded THEN pin.text ELSE pin.loaded
           result == IF hit # {} THEN (CHOOSE e \in hit : TRUE).sections
                     ELSE parse_text(pin.name, content)
       IN  /\ pin' = IF hit # {} THEN pin
                     ELSE [pin EXCEPT
                              !.loaded = content,
                              !.parsed = @ \cup {[hash |-> digest(pin.text),
                                                  sections |-> result]}]
           /\ pout' = Called("parse_sections_cached", result)
    /\ UNCHANGED <<doc, embedder, watcher, file_cache, monitor, shared,
                   sin, sout,
                   xin, xout>>

NextParse ==
    CreateDocument \/ EditDocument \/ ParseSections \/ ParseSectionsCached

SpecParse == Init /\ [][NextParse]_vars

\* ------------------------------------------------------------ the writers of knowledge/vectors
\* vectors.npy[d]   the number of rows of <d>.npy, 0 when it does not exist
\* vectors.json[d]  who wrote <d>.json last and for how many sections
\* vectors.hash_cache  .hash_cache.json exists

\* A run of auto_embed_all that finds d changed, with n sections:
\* save_embeddings writes the n rows and the metadata of the n sections.
\* Every run ends with save_hash_cache.
AutoEmbed ==
    \E d \in Docs, n \in 1..MaxEntries :
        /\ vectors' = [npy |-> [vectors.npy EXCEPT ![d] = n],
                       json |-> [vectors.json EXCEPT
                                    ![d] = [by |-> "auto-embedder", n |-> n]],
                       hash_cache |-> TRUE]
        /\ UNCHANGED <<apart, procs, registry, orchestrator, prompt, progress>>

\* A run of auto_embed_all that finds every document up to date, missing
\* or without sections
AutoEmbedNothing ==
    /\ vectors' = [vectors EXCEPT !.hash_cache = TRUE]
    /\ UNCHANGED <<apart, procs, registry, orchestrator, prompt, progress>>

\* vector-search.py --generate when d has n sections: generate_embeddings
\* writes <d>.json with the embedding inside each section; the documents
\* without sections are passed over.
GenerateEmbeddings ==
    \E d \in Docs, n \in 1..MaxEntries :
        /\ vectors' = [vectors EXCEPT
                          !.json[d] = [by |-> "vector-search", n |-> n]]
        /\ UNCHANGED <<apart, procs, registry, orchestrator, prompt, progress>>

NextVectors == AutoEmbed \/ AutoEmbedNothing \/ GenerateEmbeddings

SpecVectors == Init /\ [][NextVectors]_vars

\* the vector of every section: the shape of the files, not the vectors in
\* them, is what the writers differ in
SomeRows(n) == [k \in 1..n |-> <<1, 0>>]

\* <d>.json as its last writer wrote it
JsonOf(v, d) ==
    IF v.json[d].by = "vector-search"
    THEN SearchFile(d, SomeRows(v.json[d].n))
    ELSE MetadataFile(d, v.json[d].n)

\* VECTOR_DIR.glob("*.json"): pathlib matches the names that begin with a
\* dot as well
RECURSIVE globbed(_, _)
globbed(v, k) ==
    IF k > NumFiles
    THEN IF v.hash_cache THEN <<HashCacheFile>> ELSE << >>
    ELSE (IF v.json[knowledge_files[k]].by = "none" THEN << >>
          ELSE <<JsonOf(v, knowledge_files[k])>>) \o globbed(v, k + 1)

\* how search_semantic ends on the directory
searched(v) ==
    search_semantic(<<1, 0>>, -Unit, FALSE, MaxTopK,
                    [dir |-> globbed(v, 1), RERANKER_AVAILABLE |-> TRUE,
                     rerank_top_k |-> 1, outcome |-> "scored",
                     scores |-> NoScores]).status

\* how find_cross_references ends on the directory: it loads the types
\* that have both files; data['embeddings'][i] needs a row for every
\* section; section['preview'] is read of both sections of every pair of
\* different types that is similar enough
cross_referenced(v) ==
    LET loaded(d) == v.npy[d] > 0 /\ v.json[d].by # "none"
        index == [d \in Docs |->
                     IF loaded(d) THEN SomeRows(v.json[d].n) ELSE << >>]
        pairs == compared(all_items(index, 1), 1, 2, -Unit)
        has_preview(d, k) == "preview" \in DOMAIN JsonOf(v, d).sections[k]
    IN  IF \E d \in Docs : loaded(d) /\ v.json[d].n > v.npy[d]
        THEN "IndexError"
        ELSE IF \E k \in 1..Len(pairs) :
                    \/ ~has_preview(pairs[k].file_a, pairs[k].title_a)
                    \/ ~has_preview(pairs[k].file_b, pairs[k].title_b)
        THEN "KeyError"
        ELSE "returned"

\* ------------------------------------------------------------ error monitors side by side
\* Each process runs process_error_from_buffer; what it reads and writes
\* of failures.md and task_plan.md are steps the other process can come
\* between: add_to_failures_md reads failures.md and looks for the tag,
\* then opens it for append and writes; add_to_error_log_table follows.
Symptom(p) == extract_error_symptom(procs[p].buffer)

Tag(p) ==
    generate_error_fingerprint(Symptom(p), extract_stack_trace(procs[p].buffer))

\* the captures begun so far, by all processes
Begun == procs[1].n + procs[2].n

\* add_to_failures_md up to the return of the duplicate check
ReadCheck(p) ==
    /\ procs[p].pc = "idle"
    /\ Begun < MaxCaptures
    /\ \E buffer \in Buffers :
           LET symptom == extract_error_symptom(buffer)
               fingerprint ==
                   generate_error_fingerprint(symptom,
                                              extract_stack_trace(buffer))
           IN  procs' = [procs EXCEPT ![p] =
                   [pc |-> IF fp_in_content(fingerprint, failures_md)
                           THEN "table" ELSE "append",
                    buffer |-> buffer, n |-> procs[p].n + 1]]
    /\ UNCHANGED <<apart, vectors, registry, orchestrator, prompt, progress>>

\* add_to_failures_md, the append
AppendRecord(p) ==
    /\ procs[p].pc = "append"
    /\ failures_md' = written(failures_md, ErrorRecord(Symptom(p), Tag(p)))
    /\ procs' = [procs EXCEPT ![p].pc = "table"]
    /\ UNCHANGED <<doc, embedder, watcher, file_cache, error_log, captures,
                   ncaptures, fin, fout, retrieval, vectors, registry,
                   orchestrator, prompt, progress>>

\* add_to_error_log_table, and process_error_from_buffer returns
LogTable(p) ==
    /\ procs[p].pc = "table"
    /\ error_log' = add_to_error_log_table(Symptom(p))
    /\ procs' = [procs EXCEPT ![p].pc = "idle"]
    /\ UNCHANGED <<doc, embedder, watcher, file_cache, failures_md, captures,
                   ncaptures, fin, fout, retrieval, vectors, registry,
                   orchestrator, prompt, progress>>

NextMonitors ==
    \E p \in Procs : ReadCheck(p) \/ AppendRecord(p) \/ LogTable(p)

SpecMonitors == InitOfMonitor /\ [][NextMonitors]_vars

\* ------------------------------------------------------------ handle_task_plan_update
\* The lines under "## Phases": a checkbox that is open, checked with a
\* small x, checked with a capital X, or a line that is no checkbox.
PhaseLines == {"- [ ]", "- [x]", "- [X]", "text"}

MaxPhases == 3

\* task_plan.md: with or without a "## Phases" section, and its lines
Plans == [section : BOOLEAN, lines : SeqsUpTo(PhaseLines, MaxPhases)]

\* re.findall(r'- \[x\](.+)', phases_text, re.IGNORECASE)
completed_phases(lines) ==
    SelectSeq(lines, LAMBDA l : l \in {"- [x]", "- [X]"})

\* re.findall(r'- \[[ x]\](.+)', phases_text)
all_phases(lines) ==
    SelectSeq(lines, LAMBDA l : l \in {"- [ ]", "- [x]"})

\* the first match of r'- \[ \](.+)', else "All phases complete!" when
\* something is completed, else the "Starting..." of the ledger
current_phase(lines) ==
    LET unchecked == {k \in 1..Len(lines) : lines[k] = "- [ ]"}
    IN  IF unchecked # {}
        THEN [name |-> "phase",
              at |-> CHOOSE k \in unchecked : \A l \in unchecked : k <= l]
        ELSE IF Len(completed_phases(lines)) > 0
        THEN [name |-> "All phases complete!", at |-> 0]
        ELSE [name |-> "Starting...", at |-> 0]

\* int((completed / total) * 100)
progress_pct(completed, total) ==
    IF total > 0 THEN (completed * 100) \div total ELSE 0

\* what the handler counts in the plan
counted(plan) ==
    [st |-> IF plan.section THEN "phases" ELSE "no_phases",
     completed |-> Len(completed_phases(plan.lines)),
     total |-> Len(all_phases(plan.lines))]

\* handle_task_plan_update on the plan, the ledger being missing, failing or
\* writable: how the handler ends, and the "Current Status" it writes
tracked(plan, lg) ==
    LET tp == counted(plan)
        h == handle_task_plan_update(tp, lg)
    IN  [plan |-> plan, handler |-> h,
         status |-> IF h = "progress"
                    THEN <<[completed |-> tp.completed, total |-> tp.total,
                            pct |-> progress_pct(tp.completed, tp.total),
                            current_phase |-> current_phase(plan.lines)]>>
                    ELSE << >>]

TrackPlan ==
    /\ progress = NoCallYet
    /\ \E plan \in Plans, lg \in LedgerIO : progress' = tracked(plan, lg)
    /\ UNCHANGED <<apart, vectors, procs, registry, orchestrator, prompt>>

NextPlan == TrackPlan

SpecPlan == Init /\ [][NextPlan]_vars

\* ------------------------------------------------------------ claim_file
\* registry.file_claims  the rows of the table file_claims
\* registry.first[f]     history: the first row inserted for the path f
\* registry.call[q]      the claim_file call of process q
\* registry.n            the number of calls so far
Sessions == {"sess_1", "sess_2"}

Intents == {"edit", "review"}

MaxClaims == 3

\* SELECT session_id FROM file_claims WHERE file_path = ?
existing(file_claims, filepath) ==
    {r \in file_claims : r.file_path = filepath}

\* (mutant) file_path is no key of the table
insert_NoPrimaryKey(file_claims, row) ==
    [file_claims |-> file_claims \cup {row}, result |-> "claimed"]

\* INSERT INTO file_claims and commit: file_path is the PRIMARY KEY of the
\* table, a second row for a path raises sqlite3.IntegrityError
insert(file_claims, row) ==
    IF existing(file_claims, row.file_path) # {}
    THEN [file_claims |-> file_claims, result |-> "IntegrityError"]
    ELSE [file_claims |-> file_claims \cup {row}, result |-> "claimed"]

\* claim_file(filepath, intent, session_id) up to the test of `existing`
SelectExisting(q) ==
    /\ registry.call[q].pc = "idle"
    /\ registry.n < MaxClaims
    /\ \E filepath \in ClaimPaths, intent \in Intents, session_id \in Sessions :
           LET row == [file_path |-> filepath, session_id |-> session_id,
                       intent |-> intent]
           IN  registry' = [registry EXCEPT
                   !.n = @ + 1,
                   !.call[q] =
                       IF existing(registry.file_claims, filepath) # {}
                       THEN [pc |-> "idle", row |-> <<row>>,
                             result |-> "already claimed"]
                       ELSE [pc |-> "insert", row |-> <<row>>,
                             result |-> "none"]]
    /\ UNCHANGED <<apart, vectors, procs, orchestrator, prompt, progress>>

\* claim_file, the INSERT and the commit
InsertClaim(q) ==
    /\ registry.call[q].pc = "insert"
    /\ LET row == registry.call[q].row[1]
           done == insert(registry.file_claims, row)
       IN  registry' = [registry EXCEPT
               !.file_claims = done.file_claims,
               !.first[row.file_path] =
                   IF @ = << >> /\ done.result = "claimed" THEN <<row>> ELSE @,
               !.call[q] = [pc |-> "idle", row |-> <<row>>,
                            result |-> done.result]]
    /\ UNCHANGED <<apart, vectors, procs, orchestrator, prompt, progress>>

NextRegistry == \E q \in Procs : SelectExisting(q) \/ InsertClaim(q)

SpecRegistry == Init /\ [][NextRegistry]_vars

\* ------------------------------------------------------------ session-orchestrator.py
\* orchestrator.running   the file-watcher processes that run
\* orchestrator.pc        "start" while an invocation is in start_session
\*                        after the Popen, "none" when none is
\* orchestrator.file_watcher_process   the attribute of the
\*                        SessionOrchestrator of the running invocation
\* orchestrator.last      the command that ended last
\* orchestrator.n         the number of invocations so far
\* Every invocation is a process of its own: main builds a new
\* SessionOrchestrator, runs one command and returns.
MaxCommands == 4

\* end_session: on_idle, then terminate (or kill) the process the
\* attribute holds, if it holds one
end_session(running, file_watcher_process) ==
    IF file_watcher_process # NoProcess
    THEN running \ {file_watcher_process}
    ELSE running

\* `start <task>`: start_session up to the test of poll(): the watcher has
\* started, or it has exited (watchdog is not installed) and the attribute
\* is set back to None
StartSession ==
    /\ orchestrator.pc = "none"
    /\ orchestrator.n < MaxCommands
    /\ \E alive \in BOOLEAN :
           orchestrator' = [orchestrator EXCEPT
               !.n = @ + 1,
               !.pc = "start",
               !.running = IF alive THEN @ \cup {orchestrator.n + 1} ELSE @,
               !.file_watcher_process =
                   IF alive THEN orchestrator.n + 1 ELSE NoProcess]
    /\ UNCHANGED <<apart, vectors, procs, registry, prompt, progress>>

\* start_session returns, main returns and the process exits: the child
\* it started runs on
StartReturns ==
    /\ orchestrator.pc = "start"
    /\ orchestrator' = [orchestrator EXCEPT
           !.pc = "none", !.file_watcher_process = NoProcess,
           !.last = "start"]
    /\ UNCHANGED <<apart, vectors, procs, registry, prompt, progress>>

\* SIGINT or SIGTERM while start_session runs: signal_handler calls
\* end_session and exits
Interrupted ==
    /\ orchestrator.pc = "start"
    /\ orchestrator' = [orchestrator EXCEPT
           !.running = end_session(@, orchestrator.file_watcher_process),
           !.pc = "none", !.file_watcher_process = NoProcess,
           !.last = "interrupt"]
    /\ UNCHANGED <<apart, vectors, procs, registry, prompt, progress>>

\* `end`: end_session of a new SessionOrchestrator
EndCommand ==
    /\ orchestrator.pc = "none"
    /\ orchestrator.n < MaxCommands
    /\ orchestrator' = [orchestrator EXCEPT
           !.n = @ + 1,
           !.running = end_session(@, NoProcess),
           !.last = "end"]
    /\ UNCHANGED <<apart, vectors, procs, registry, prompt, progress>>

\* `idle`: on_idle of a new SessionOrchestrator
IdleCommand ==
    /\ orchestrator.pc = "none"
    /\ orchestrator.n < MaxCommands
    /\ orchestrator' = [orchestrator EXCEPT !.n = @ + 1, !.last = "idle"]
    /\ UNCHANGED <<apart, vectors, procs, registry, prompt, progress>>

NextSession ==
    StartSession \/ StartReturns \/ Interrupted \/ EndCommand \/ IdleCommand

SpecSession == Init /\ [][NextSession]_vars

\* ------------------------------------------------------------ smart-prompt-helper.py
\* prompt.file   active/.extraction_needed.txt: NoPrompt, or the reason,
\*               the time and the counts the prompt was written with
\* prompt.last   the last operation: what it found in place of the file
\*               and the counts it read from context.md and task_plan.md
\* prompt.n      the number of operations so far, which is the clock
MaxCalls == 3
MaxCount == 2
Counts == 0..MaxCount

\* should_trigger_extraction: <<should_trigger, reason>>, the triggers
\* tested in the order of the code
should_trigger_extraction(discoveries, completed, errors) ==
    IF discoveries >= 2
    THEN <<TRUE, <<"discoveries documented (2-action rule)", discoveries>>>>
    ELSE IF completed >= 1
    THEN <<TRUE, <<"phase(s) completed", completed>>>>
    ELSE IF errors >= 2
    THEN <<TRUE, <<"errors encountered", errors>>>>
    ELSE <<FALSE, <<"No extraction triggers met yet", 0>>>>

\* generate_extraction_prompt: the text carries the reason, the time and
\* the three counts
generate_extraction_prompt(discoveries, completed, errors, reason, at) ==
    [reason |-> reason, time |-> at, discoveries |-> discoveries,
     completed_phases |-> completed, errors |-> errors]

create_extraction_prompt_Overwrites(file, discoveries, completed, errors, at) ==
    LET trigger == should_trigger_extraction(discoveries, completed, errors)
    IN  IF ~trigger[1] THEN file
        ELSE generate_extraction_prompt(
                 discoveries, completed, errors, trigger[2], at)

\* create_extraction_prompt: the file after the call
create_extraction_prompt(file, discoveries, completed, errors, at) ==
    LET trigger == should_trigger_extraction(discoveries, completed, errors)
    IN  IF file # NoPrompt THEN file
        ELSE IF ~trigger[1] THEN file
        ELSE generate_extraction_prompt(
                 discoveries, completed, errors, trigger[2], at)

\* `smart-prompt-helper.py --create` with context.md and task_plan.md
\* holding any counts
CreatePrompt ==
    /\ prompt.n < MaxCalls
    /\ \E discoveries \in Counts, completed \in Counts, errors \in Counts :
           prompt' =
               [file |-> create_extraction_prompt(
                             prompt.file, discoveries, completed,
                             errors, prompt.n + 1),
                last |-> [op |-> "create", found |-> prompt.file,
                          discoveries |-> discoveries,
                          completed_phases |-> completed,
                          errors |-> errors],
                n |-> prompt.n + 1]
    /\ UNCHANGED <<apart, vectors, procs, registry, orchestrator, progress>>

\* the reader of the prompt follows its last instruction and deletes it
DeletePrompt ==
    /\ prompt.n < MaxCalls
    /\ prompt.file # NoPrompt
    /\ prompt' = [file |-> NoPrompt,
                  last |-> [prompt.last EXCEPT !.op = "delete",
                                               !.found = prompt.file],
                  n |-> prompt.n + 1]
    /\ UNCHANGED <<apart, vectors, procs, registry, orchestrator, progress>>

NextPrompt == CreatePrompt \/ DeletePrompt

SpecPrompt == Init /\ [][NextPrompt]_vars

\* ============================================================ claims
\* the document of the previous iteration of the loop
prev == knowledge_files[i - 1]

\* C1: between runs of the auto-embedder, whenever the status check reports
\* a document "unchanged" (its recorded digest equals the digest of its
\* bytes), both index files of the document are completely written and were
\* built from the document's current content.
C1_UnchangedImpliesCurrentIndex ==
    pc = "idle" =>
        \A d \in Docs : check_status(d) = "unchanged" => IndexBuiltFrom(d, doc[d])

\* C2 as stated: once sync(D) has returned (and D was not written since),
\* the hash cache's digest for D is the digest of D's bytes and the index
\* has an entry for every record of parse(D).
C2_SyncCommitsAndCovers ==
    \A d \in Docs :
        rets[d] # << >> =>
            /\ hash_cache[d] = hash_file(doc[d])
            /\ IndexCovers(d, doc[d])

\* C2 amended: once a sync(D) has returned updated=true (and D was not
\* written since), D has at least one record, the hash cache's digest for D
\* is the digest of D's bytes and the index has an entry for every record of
\* parse(D).
C2_UpdatedSyncCommitsAndCovers ==
    \A d \in Docs :
        (\E k \in 1..Len(rets[d]) : rets[d][k]) =>
            /\ Len(parse_sections(doc[d])) > 0
            /\ hash_cache[d] = hash_file(doc[d])
            /\ IndexCovers(d, doc[d])

C2_Witness ==
    \E d \in Docs :
        /\ rets[d] = <<TRUE>>
        /\ Len(parse_sections(doc[d])) = 2
        /\ hash_cache[d] = hash_file(doc[d])
        /\ IndexCovers(d, doc[d])

\* C3 as stated: two syncs of D in succession with no write to D between
\* them return updated=true, then updated=false.
C3_TrueThenFalse ==
    \A d \in Docs : Len(rets[d]) = 2 => rets[d] = <<TRUE, FALSE>>

\* C3 amended: a non-forced sync of D that follows a sync of D with no write
\* to D between them returns updated=false; and a sync that returned
\* updated=true was on an existing document with at least one record.
C3_SecondSyncNotUpdated ==
    /\ (Len(rets[cur]) = 2 /\ ~force) => rets[cur][2] = FALSE
    /\ \A d \in Docs :
          (\E k \in 1..Len(rets[d]) : rets[d][k]) =>
              doc[d] # Missing /\ Len(parse_sections(doc[d])) > 0

C3_Witness == rets[cur] = <<TRUE, FALSE>> /\ ~force

C5_AtomicIndexReplace ==
    /\ robs.st # "skipped"
    /\ robs.st = "loaded" => robs.npy = robs.json

\* C6: after the process was killed, the hash cache read back is the
\* mapping of the last completed save (a save that did not complete leaves
\* the previous mapping).
C6_CacheSurvivesKill ==
    (pc = "idle" /\ exit = "killed") => load_hash_cache(cacheFile) = lastSaved

C8_ZeroRecordsSkip ==
    [][(/\ pc = "loop" /\ i <= NumFiles
        /\ doc[cur] # Missing
        /\ Len(parse_sections(doc[cur])) = 0
        /\ hash_file(doc[cur]) # hash_cache[cur]
        /\ pc' # pc \/ i' # i
        /\ exit' # "killed")
       => (/\ npy' = npy /\ json' = json
           /\ cacheFile' = cacheFile
           /\ hash_cache' = hash_cache
           /\ ret' = FALSE
           /\ pc' = "loop" /\ i' = i + 1)]_vars

C8_Witness ==
    /\ pc = "loop" /\ i > 1 /\ ~ret
    /\ doc[prev] # Missing
    /\ Len(parse_sections(doc[prev])) = 0
    /\ IndexExists(prev)
    /\ hash_cache[prev] # EmptyDigest
    /\ hash_cache[prev] # hash_file(doc[prev])

\* C9: a run that ended because the embedding of one document failed has
\* nevertheless gone through all the documents, and the digests it committed
\* are in the persisted hash cache.
C9_FailureContained ==
    exit = "exception" =>
        /\ i > NumFiles
        /\ load_hash_cache(cacheFile) = hash_cache

EventStep == events' = events + 1

\* C11: a modify event on a tracked path is accepted if and only if more
\* than debounce_seconds have passed since the last accepted event on that
\* path (or there was none), and an event that is not accepted leaves the
\* timestamps as they are.
C11_AcceptedIffWindowElapsed ==
    [][(EventStep /\ wlog'.path \in TrackedPaths /\ ~wlog'.dir) =>
          /\ (wlog'.result = "accepted") <=>
                 (now - lastAccepted[wlog'.path] > debounce_seconds)
          /\ (wlog'.result # "accepted") => UNCHANGED timestamps]_vars

\* C12: an event on a knowledge document is dropped only when an earlier
\* event on the same document was accepted.
C12_DroppedOnlyBySamePath ==
    (wlog.result = "dropped" /\ wlog.path \in Docs) =>
        lastAccepted[wlog.path] # 0

\* C13: when the daemon has accepted an event for a document, a read of the
\* document through load_file_cached returns the document's current content.
C13_AcceptInvalidatesCache ==
    [][(EventStep /\ wlog'.result = "accepted" /\ wlog'.path \in Docs) =>
          \/ file_cache'[wlog'.path] = NotCached
          \/ file_cache'[wlog'.path] = doc'[wlog'.path]]_vars

\* C14: handling an event, accepted or dropped, leaves the documents, the
\* index files and the hash cache (the file and the dict) as they are; an
\* accepted event on a knowledge document changes nothing but the timestamp
\* of the knowledge directory; an event on a directory or an untracked file
\* changes no state of the daemon.
C14_DaemonLeavesIndex ==
    [][EventStep =>
          /\ UNCHANGED <<doc, npy, json, cacheFile, hash_cache, indexed>>
          /\ (wlog'.path \in Docs /\ ~wlog'.dir) =>
                 UNCHANGED <<last_task_plan_update, last_context_update,
                             ledger, wst, file_cache>>
          /\ (wlog'.dir \/ wlog'.path \notin TrackedPaths) =>
                 /\ wlog'.result = "ignored"
                 /\ UNCHANGED <<timestamps, wst, ledger, file_cache>>]_vars

\* an accepted event on a document whose index exists
C14_Witness ==
    /\ wlog.result = "accepted"
    /\ wlog.path \in Docs
    /\ IndexBuiltFrom(wlog.path, doc[wlog.path])
    /\ load_hash_cache(cacheFile)[wlog.path] # hash_file(doc[wlog.path])

\* C15: once a handler has failed (task_plan.md or context.md unreadable,
\* the ledger unreadable or unwritable) the daemon is still watching, and
\* an event on any tracked path outside its debounce window is accepted.
C15_HandlerFailureContained ==
    [][/\ failed' => wst' = "watching"
       /\ (failed /\ EventStep /\ wlog'.path \in TrackedPaths /\ ~wlog'.dir
             /\ now - LastUpdate(wlog'.path) > debounce_seconds) =>
              wlog'.result = "accepted"]_vars

\* a handler failed, and a later event on a knowledge document was accepted
C15_Witness ==
    /\ failed
    /\ wst = "watching"
    /\ wlog.result = "accepted"
    /\ wlog.path \in Docs
    /\ lastAccepted["task_plan"] # 0

\* ------------------------------------------------------------ the error monitor
\* the step is one call of process_error_from_buffer
CaptureStep == ncaptures' = ncaptures + 1

\* the lines of output before the error line
Preceding(buffer) == SubSeq(buffer, 1, Len(buffer) - 1)

\* Two symptoms that differ at most in their timestamps, file paths and
\* line numbers.
SameButVolatile(s1, s2) ==
    /\ Len(s1) = Len(s2)
    /\ \A j \in 1..Len(s1) :
          /\ s1[j].k = s2[j].k
          /\ s1[j].k = "word" => s1[j] = s2[j]

\* C16: of two successive captures whose symptoms differ at most in a
\* timestamp, a file path or a line number, and that follow the same
\* output, the second has the fingerprint of the first and is reported as
\* a duplicate.
C16_SameErrorDeduplicated ==
    Len(captures) = 2 =>
        LET c1 == captures[1]
            c2 == captures[2]
        IN  (/\ Preceding(c1.buffer) = Preceding(c2.buffer)
             /\ SameButVolatile(extract_error_symptom(c1.buffer),
                                extract_error_symptom(c2.buffer)))
            => (c1.fingerprint = c2.fingerprint /\ ~c2.accepted)

\* C17: a capture is skipped if and only if some record of failures.md, the
\* last or any earlier one, written by the engine or by a human, carries
\* the tag of its fingerprint; after every capture no two records appended
\* by the engine carry the same tag.
C17_SkipIffTagPresent ==
    [][CaptureStep =>
          LET c == captures'[Len(captures')] IN
          /\ (~c.accepted) <=>
                 (\E k \in 1..Len(failures_md) :
                      failures_md[k].tag = c.fingerprint)
          /\ \A k1, k2 \in 1..Len(failures_md') :
                 (/\ failures_md'[k1].by = "engine"
                  /\ failures_md'[k2].by = "engine"
                  /\ failures_md'[k1].tag = failures_md'[k2].tag) => k1 = k2]_vars

\* a capture skipped because of the tag of a record that is not the last
C17_Witness ==
    /\ Len(captures) = 2
    /\ captures[1].accepted
    /\ ~captures[2].accepted
    /\ captures[2].fingerprint = HumanRecord.tag
    /\ Len(failures_md) = 2
    /\ failures_md[1] = HumanRecord

\* C18: a capture leaves the records failures.md held before it in place
\* and unchanged; an accepted capture adds one record after them, tagged
\* with the fingerprint of the capture; a skipped capture adds none.
C18_AppendOnly ==
    [][CaptureStep =>
          LET c == captures'[Len(captures')]
              n == Len(failures_md)
          IN  /\ Len(failures_md') >= n
              /\ SubSeq(failures_md', 1, n) = failures_md
              /\ c.accepted =>
                     /\ Len(failures_md') = n + 1
                     /\ failures_md'[n + 1].by = "engine"
                     /\ failures_md'[n + 1].tag = c.fingerprint
              /\ ~c.accepted => failures_md' = failures_md]_vars

\* two records appended after the record a human wrote
C18_Witness ==
    /\ Len(failures_md) = 3
    /\ failures_md[1] = HumanRecord
    /\ failures_md[2].by = "engine"
    /\ failures_md[3].by = "engine"
    /\ failures_md[2].tag # failures_md[3].tag

\* C19: a duplicate capture changes neither failures.md nor task_plan.md.
C19_DuplicateIsNoOp ==
    [][(CaptureStep /\ ~captures'[Len(captures')].accepted) =>
          /\ failures_md' = failures_md
          /\ error_log' = error_log]_vars

\* the first three lines of a stack trace
First3(stack_trace) ==
    SubSeq(stack_trace, 1, IF Len(stack_trace) < 3 THEN Len(stack_trace) ELSE 3)

\* C20: for one symptom, two stack traces with the same first three lines
\* have the same fingerprint.
C20_FirstThreeLines ==
    (fout # NoCall /\ First3(fin.a) = First3(fin.b)) => fout.a = fout.b

\* two stack traces of four lines that differ in the fourth only
C20_Witness ==
    /\ fout # NoCall
    /\ Len(fin.a) = 4
    /\ Len(fin.b) = 4
    /\ fin.a[4] # fin.b[4]
    /\ First3(fin.a) = First3(fin.b)
    /\ fout.a = fout.b

\* ------------------------------------------------------------ search
Searched == sout # NoCallYet /\ sout.status = "returned"

\* the section a result stands for
Entry(r) == <<r.type, r.header>>

Entries(s) == {Entry(s[k]) : k \in 1..Len(s)}

\* the position of the section of r in the list s
Position(r, s) == CHOOSE k \in 1..Len(s) : Entry(s[k]) = Entry(r)

\* the Stage-1 candidates Stage 2 is given
TopN == first(sout.stage1, sin.env.rerank_top_k)

\* C21 as stated: with reranking enabled the result of a search is a subset
\* of the top N Stage-1 candidates and has at most top_k elements, on every
\* path through Stage 2, the path of the unavailable reranker included.
C21_SubsetOfTopN ==
    (Searched /\ sin.use_reranking) =>
        /\ Entries(sout.results) \subseteq Entries(TopN)
        /\ Len(sout.results) <= sin.top_k

\* C21 as amended: with reranking enabled the result of a search is a subset
\* of the Stage-1 results and has at most top_k elements (top_k >= 0) on
\* every path, and it is a subset of the top N Stage-1 candidates on every
\* path that hands candidates to Stage 2.
C21_SubsetOfStage1 ==
    (Searched /\ sin.use_reranking) =>
        /\ Entries(sout.results) \subseteq Entries(sout.stage1)
        /\ Len(sout.results) <= sin.top_k
        /\ Cardinality(Entries(sout.results)) = Len(sout.results)
        /\ sout.entered => Entries(sout.results) \subseteq Entries(TopN)

\* a reranked search with more Stage-1 results than candidates and more
\* candidates wanted than handed to Stage 2
C21_Witness ==
    /\ Searched /\ sin.use_reranking /\ sout.entered
    /\ sin.env.outcome = "scored"
    /\ Len(sout.stage1) > sin.env.rerank_top_k
    /\ sin.top_k > sin.env.rerank_top_k
    /\ Len(sout.results) = sin.env.rerank_top_k

\* Stage 2 did not score: the reranker is unavailable or the cross-encoder
\* failed to load or to score
Degraded ==
    /\ sin.use_reranking
    /\ \/ ~sin.env.RERANKER_AVAILABLE
       \/ sin.env.outcome \in {"load_failed", "predict_failed"}

\* C22: if the precision model is unavailable, fails to load or fails while
\* scoring, a search with reranking requested whose Stage 1 has ranked the
\* entries returns, and returns exactly the Stage-1 ranking truncated to the
\* requested count.
C22_DegradesToStage1 ==
    (sout # NoCallYet /\ sout.status # "KeyError" /\ Degraded) =>
        /\ sout.status = "returned"
        /\ sout.results = first(sout.stage1, sin.top_k)

\* C23: Stage 1 returns exactly the entries of every file of the vectors
\* directory whose cosine similarity to the query vector is at or above the
\* threshold, ordered by similarity descending.
C23_Stage1Exact ==
    sout # NoCallYet =>
        /\ sout.status = "returned"
        /\ Entries(sout.stage1) =
               {<<sin.env.dir[f].stem, k>> :
                    f \in 1..Len(sin.env.dir), k \in 1..MaxEntries} \cap
               {e \in Docs \X (1..MaxEntries) :
                    \E f \in 1..Len(sin.env.dir) :
                        /\ sin.env.dir[f].stem = e[1]
                        /\ e[2] <= Len(sin.env.dir[f].sections)
                        /\ similarity(sin.query_embedding,
                               sin.env.dir[f].sections[e[2]].embedding)
                               >= sin.threshold
                        /\ ~zero_divisor(sin.query_embedding,
                               sin.env.dir[f].sections[e[2]].embedding)}
        /\ Cardinality(Entries(sout.stage1)) = Len(sout.stage1)
        /\ \A k \in 1..(Len(sout.stage1) - 1) :
               sout.stage1[k].similarity >= sout.stage1[k + 1].similarity

\* the input of the sort of Stage 1
Scanned == scanned(sin.env.dir, sin.query_embedding, sin.threshold)

\* C24: ranking is stable: two Stage-1 results of equal similarity are in the
\* order in which the scan found them, and two reranked results of equal
\* rerank score are in the order of the candidates.
C24_StableRanking ==
    Searched =>
        /\ \A k, l \in 1..Len(sout.stage1) :
               (k < l /\ sout.stage1[k].similarity = sout.stage1[l].similarity)
                   => Position(sout.stage1[k], Scanned)
                          < Position(sout.stage1[l], Scanned)
        /\ (sout.entered /\ sin.env.outcome = "scored") =>
               \A k, l \in 1..Len(sout.results) :
                   (k < l /\ sout.results[k].rerank_score
                                 = sout.results[l].rerank_score)
                       => Position(sout.results[k], TopN)
                              < Position(sout.results[l], TopN)

\* a reranked search with two Stage-1 results of equal similarity that the
\* cross-encoder gives equal scores
C24_Witness ==
    /\ Searched /\ sout.entered /\ sin.env.outcome = "scored"
    /\ Len(sout.results) = 2
    /\ sout.stage1[1].similarity = sout.stage1[2].similarity
    /\ sout.results[1].rerank_score = sout.results[2].rerank_score

\* the similarity Stage 1 computed for the section of r
Recall(r) == sout.stage1[Position(r, sout.stage1)].similarity

\* C25: every result of a reranked search carries its recall score, equal to
\* the similarity Stage 1 computed for the entry, and its precision score; a
\* result returned without Stage-2 scoring carries the recall score and no
\* precision score; reranking leaves the candidates it was given as they
\* were.
C25_BothScores ==
    Searched =>
        /\ \A k \in 1..Len(sout.results) :
               LET r == sout.results[k]
               IN  IF sout.entered /\ sin.env.outcome = "scored"
                   THEN /\ {"vector_score", "rerank_score"} \subseteq DOMAIN r
                        /\ r.vector_score = Recall(r)
                        /\ r.similarity = Recall(r)
                        /\ r.rerank_score
                               = sin.env.scores[Position(r, TopN)]
                   ELSE /\ r.similarity = Recall(r)
                        /\ r.score = Recall(r)
                        /\ "rerank_score" \notin DOMAIN r
        /\ sout.entered => sout.handed = TopN

\* a reranked search whose precision scores reverse the Stage-1 order
C25_Witness ==
    /\ Searched /\ sout.entered /\ sin.env.outcome = "scored"
    /\ Len(sout.results) = 2
    /\ sout.results[1].vector_score < sout.results[2].vector_score
    /\ sout.results[1].rerank_score > sout.results[2].rerank_score

\* ------------------------------------------------------------ cross-references
Referenced == xout # NoCallYet /\ xout.status = "returned"

\* the indexed records: document type and position
Records == {<<d, k>> : d \in Docs, k \in 1..MaxEntries} \cap
           {e \in Docs \X (1..MaxEntries) : e[2] <= Len(xin.index[e[1]])}

VectorOf(e) == xin.index[e[1]][e[2]]

RecordA(r) == <<r.file_a, r.title_a>>

RecordB(r) == <<r.file_b, r.title_b>>

Pair(r) == {RecordA(r), RecordB(r)}

Returned == {Pair(xout.cross_refs[k]) : k \in 1..Len(xout.cross_refs)}

\* the cosine of the two records of an unordered pair
PairSimilarity(p) ==
    LET a == CHOOSE a \in p : TRUE
        b == CHOOSE b \in p : b # a
    IN  similarity(VectorOf(a), VectorOf(b))

\* the unordered pairs of records of different types whose cosine is defined
\* and at or above the threshold
Qualifying ==
    {p \in {{a, b} : a, b \in Records} :
        \E a, b \in p :
            /\ a[1] # b[1]
            /\ ~zero_divisor(VectorOf(a), VectorOf(b))
            /\ similarity(VectorOf(a), VectorOf(b)) >= xin.threshold}

\* the vector of the entry a search result stands for
VectorOfResult(r) ==
    LET f == CHOOSE f \in 1..Len(sin.env.dir) : sin.env.dir[f].stem = r.type
    IN  sin.env.dir[f].sections[r.header].embedding

\* C26: an index entry whose vector has zero norm is in no result of a
\* search and in no cross-reference, for every threshold, and no similarity
\* is computed by a division by zero.
C26_ZeroNormExcluded ==
    /\ Searched =>
           /\ \A k \in 1..Len(sout.results) :
                  VectorOfResult(sout.results[k]) # Zero
           /\ ~sout.zero
    /\ Referenced =>
           /\ \A p \in Returned : \A e \in p : VectorOf(e) # Zero
           /\ ~xout.zero

\* C27: the pairs find_cross_references returns are pairs of two different
\* records of different document types, no unordered pair is returned twice,
\* and when at most 10 pairs qualify every qualifying pair is returned.
C27_CrossTypeOnce ==
    Referenced =>
        /\ \A k \in 1..Len(xout.cross_refs) :
               LET r == xout.cross_refs[k]
               IN  /\ r.file_a # r.file_b
                   /\ RecordA(r) # RecordB(r)
                   /\ Pair(r) \subseteq Records
        /\ Cardinality(Returned) = Len(xout.cross_refs)
        /\ Cardinality(Qualifying) <= 10 => Returned = Qualifying

\* a run on an index with two records of one type with the same vector and a
\* record of another type with that vector
C27_Witness ==
    /\ Referenced
    /\ \E a, b, c \in Records :
           /\ a # b /\ a[1] = b[1] /\ c[1] # a[1]
           /\ VectorOf(a) = VectorOf(b) /\ VectorOf(b) = VectorOf(c)
           /\ VectorOf(a) # Zero
           /\ {a, c} \in Returned /\ {b, c} \in Returned

\* C28: find_cross_references returns at most 10 pairs, each a cross-type
\* pair with its cosine at or above the threshold, sorted by similarity
\* descending; all qualifying pairs when at most 10 qualify, and otherwise
\* 10 pairs such that no omitted qualifying pair is more similar than a
\* returned one.
C28_TopTen ==
    Referenced =>
        /\ Len(xout.cross_refs) <= 10
        /\ Returned \subseteq Qualifying
        /\ Cardinality(Returned) = Len(xout.cross_refs)
        /\ \A k \in 1..Len(xout.cross_refs) :
               /\ xout.cross_refs[k].similarity >= xin.threshold
               /\ xout.cross_refs[k].similarity
                      = PairSimilarity(Pair(xout.cross_refs[k]))
        /\ \A k \in 1..(Len(xout.cross_refs) - 1) :
               xout.cross_refs[k].similarity
                   >= xout.cross_refs[k + 1].similarity
        /\ Len(xout.cross_refs) =
               IF Cardinality(Qualifying) < 10 THEN Cardinality(Qualifying)
               ELSE 10
        /\ \A p \in Qualifying \ Returned : \A q \in Returned :
               PairSimilarity(p) <= PairSimilarity(q)

\* more than 10 pairs qualify, and a qualifying pair less similar than the
\* last pair returned is left out
C28_Witness ==
    /\ Referenced
    /\ Cardinality(Qualifying) > 10
    /\ Len(xout.cross_refs) = 10
    /\ \E p \in Qualifying \ Returned :
           PairSimilarity(p) < xout.cross_refs[10].similarity

\* ------------------------------------------------------------ parse
Parsed == pout # NoCallYet

\* C29: parse is a function of the document's name and text: the records it
\* returns are numbered '<stem>_section_1', '<stem>_section_2', ... in
\* order without gaps, and two calls on the same text, by either parser,
\* return the same records in the same order.
C29_PureParse ==
    Parsed =>
        /\ \A n \in 1..Len(pout.sections) :
               pout.sections[n].id = [stem |-> pin.name, ordinal |-> n]
        /\ \A a, b \in pout.calls :
               a.text = b.text => a.sections = b.sections

\* the positions of the header lines of the text parsed, the first line
\* included
Headers == {k \in 1..Len(pout.text) : pout.text[k] = "header"}

\* the position of the n-th header line
Header(n) ==
    CHOOSE k \in Headers : Cardinality({l \in Headers : l <= k}) = n

\* C30: parse_sections returns one record per header line of the document,
\* a header on the first line included, each record being the lines from
\* its header up to the next header; a document without header line yields
\* the empty sequence.
C30_OneRecordPerHeader ==
    (Parsed /\ pout.by = "parse_sections") =>
        /\ Len(pout.sections) = Cardinality(Headers)
        /\ \A n \in 1..Len(pout.sections) :
               n <= Cardinality(Headers) =>
                   pout.sections[n].content =
                       SubSeq(pout.text, Header(n),
                              IF n < Cardinality(Headers)
                              THEN Header(n + 1) - 1 ELSE Len(pout.text))

\* ------------------------------------------------------------ status
\* the digest the persisted hash cache records for the document
Recorded(d) == load_hash_cache(cacheFile)[d]

\* what check_and_embed_file would do with the document, not forced,
\* with the hash cache as load_hash_cache reads it now
NonForcedSync(d) == SyncOutcome(doc[d], Recorded(d), FALSE)

\* C31: check_status classifies every document as exactly one of
\* unchanged, changed, missing: missing when the file does not exist (its
\* digest is then the empty digest), unchanged when the digest of its bytes
\* equals the recorded digest, changed otherwise, also when no digest is
\* recorded; and it reports changed exactly when a sync that is not forced
\* would attempt a rebuild (it goes past the comparison of the digests).
C31_StatusClassifies ==
    \A d \in Docs :
        /\ check_status(d) \in {"unchanged", "changed", "missing"}
        /\ check_status(d) = "missing" <=> doc[d] = Missing
        /\ doc[d] = Missing => hash_file(doc[d]) = EmptyDigest
        /\ check_status(d) = "unchanged" <=>
               (doc[d] # Missing /\ hash_file(doc[d]) = Recorded(d))
        /\ (doc[d] # Missing /\ Recorded(d) = EmptyDigest) =>
               check_status(d) = "changed"
        /\ check_status(d) = "changed" <=>
               NonForcedSync(d) \in {"skip", "embed"}

C31_Witness ==
    /\ \E d \in Docs : check_status(d) = "missing"
    /\ \E d \in Docs : check_status(d) = "unchanged"
    /\ \E d \in Docs :
          check_status(d) = "changed" /\ Recorded(d) = EmptyDigest
    /\ \E d \in Docs :
          /\ check_status(d) = "changed" /\ Recorded(d) # EmptyDigest
          /\ NonForcedSync(d) = "embed"

\* ------------------------------------------------------------ the parsed-sections cache
\* C32: the parsed-sections cache follows the file: after any writes of the
\* document and any cached calls in one process, parse_sections_cached
\* called with the digest of the document's current text returns the
\* sections of that text, never those of an earlier version of the file.
C32_CacheFollowsFile ==
    (Parsed /\ pout.by = "parse_sections_cached") =>
        pout.sections = parse_text(pin.name, pout.text)

\* ------------------------------------------------------------ the vectors directory
\* C33: after any runs of the auto-embedder and of vector-search.py
\* --generate on one vectors directory, search_semantic and
\* find_cross_references find every file they read there in the shape they
\* need: neither fails on a file of the other writer or on the hash cache.
C33_ArtifactsFitReaders ==
    /\ searched(vectors) = "returned"
    /\ cross_referenced(vectors) = "returned"

\* ------------------------------------------------------------ monitors side by side
\* C34: when two error-monitor processes capture errors of one fingerprint
\* at the same time, at most one of them appends a record: under every
\* interleaving of their read-check and append steps failures.md never
\* holds two records with the same fingerprint tag.
C34_OneRecordPerFingerprint ==
    \A k, l \in 1..Len(failures_md) :
        k # l => failures_md[k].tag # failures_md[l].tag

\* ------------------------------------------------------------ bursts
\* C35: no modification is left unprocessed for ever: an event on a
\* tracked path that on_modified drops is followed, sooner or later, by a
\* run of the path's handler, so that the handler has run at or after the
\* last event of every burst.
C35_NoEventLeftUnprocessed ==
    \A p \in TrackedPaths :
        (wlog.path = p /\ wlog.result = "dropped")
            ~> (wlog.path = p /\ wlog.result = "accepted")

\* ------------------------------------------------------------ progress
\* the checkboxes of the plan the handler was called on
Checkboxes ==
    {k \in 1..Len(progress.plan.lines) : progress.plan.lines[k] # "text"}

Unchecked == {k \in Checkboxes : progress.plan.lines[k] = "- [ ]"}

\* C36: for every task plan, the progress the daemon writes to the ledger
\* has 0 <= completed <= total and total >= 1, so the percentage is in
\* 0..100; the current phase is "all complete" when no phase is unchecked
\* and the first unchecked phase otherwise; a plan without phases leaves
\* the ledger as it is.
C36_ProgressInBounds ==
    progress # NoCallYet =>
        /\ \A k \in 1..Len(progress.status) :
               LET st == progress.status[k] IN
               /\ 0 <= st.completed /\ st.completed <= st.total
               /\ st.total >= 1
               /\ st.pct \in 0..100
               /\ IF Unchecked = {}
                  THEN st.current_phase.name = "All phases complete!"
                  ELSE st.current_phase =
                           [name |-> "phase",
                            at |-> CHOOSE u \in Unchecked :
                                       \A l \in Unchecked : u <= l]
        /\ (~progress.plan.section \/ Checkboxes = {}) => progress.status = << >>

\* ------------------------------------------------------------ file claims
\* C37: file claims exclude each other: under every interleaving of
\* claim_file calls of any sessions, every path has at most one row in
\* file_claims, the row is the one of the first call that inserted, and a
\* later claim of the path changes nothing in the table.
C37_ClaimsExclusive ==
    \A f \in ClaimPaths :
        /\ Cardinality(existing(registry.file_claims, f)) <= 1
        /\ registry.first[f] # << >> =>
               existing(registry.file_claims, f) = {registry.first[f][1]}

\* the two processes claimed one path for different sessions side by side:
\* one inserted, the other one's INSERT was refused
C37_Witness ==
    \E q, o \in Procs :
        /\ registry.call[q].result = "IntegrityError"
        /\ registry.call[o].result = "claimed"
        /\ registry.call[o].row[1].file_path = registry.call[q].row[1].file_path
        /\ registry.call[o].row[1].session_id # registry.call[q].row[1].session_id
        /\ registry.call[o].row[1] \in registry.file_claims

\* ------------------------------------------------------------ sessions
\* C38: ending a session stops the file watcher that starting it
\* launched: when an `end` command has run after the `start` commands, each
\* an invocation of its own, no file watcher a start launched still runs.
C38_EndStopsWatcher ==
    orchestrator.last = "end" => orchestrator.running = {}

\* ------------------------------------------------------------ the extraction prompt
\* C39: after a create operation the prompt file is the one the operation
\* found, if it found one; if it found none, the file exists exactly when
\* a trigger holds (2 or more discoveries, 1 or more completed phases, 2 or
\* more errors), and then it reports the first trigger of that order that
\* holds, with the counts and the time of this operation.
C39_CreateOnlyWhenAbsentAndTriggered ==
    prompt.last.op = "create" =>
        LET l == prompt.last
            triggered == l.discoveries >= 2 \/ l.completed_phases >= 1
                         \/ l.errors >= 2
        IN  /\ l.found # NoPrompt => prompt.file = l.found
            /\ l.found = NoPrompt /\ ~triggered => prompt.file = NoPrompt
            /\ l.found = NoPrompt /\ triggered =>
                   /\ prompt.file # NoPrompt
                   /\ prompt.file.time = prompt.n
                   /\ prompt.file.discoveries = l.discoveries
                   /\ prompt.file.completed_phases = l.completed_phases
                   /\ prompt.file.errors = l.errors
                   /\ prompt.file.reason[1] =
                          IF l.discoveries >= 2
                          THEN "discoveries documented (2-action rule)"
                          ELSE IF l.completed_phases >= 1
                          THEN "phase(s) completed"
                          ELSE "errors encountered"

\* a create operation that found the prompt of an earlier create, with
\* counts that would give another reason, and left it as it was
C39_Witness ==
    /\ prompt.last.op = "create"
    /\ prompt.last.found # NoPrompt
    /\ prompt.file = prompt.last.found
    /\ prompt.file.time < prompt.n
    /\ prompt.file.reason[1] = "phase(s) completed"
    /\ prompt.last.discoveries >= 2

====
